---- MODULE Spec2Model ----
(***************************************************************************)
(* Model of the finance tracker's service layer over the document store:   *)
(* TransactionService (src/unnamed/part_003), AccountService               *)
(* (src/unnamed/part_004), ValidationService (src/lib/validation.ts) and   *)
(* the transfer form (src/components/transactions/TransferForm.tsx).       *)
(*                                                                         *)
(* Every service call is an asynchronous handler; it is modelled as a call *)
(* record (calls[p]) whose pc names the store request it is waiting for.   *)
(* One action is one awaited store request together with the synchronous   *)
(* code that follows it up to the next await.  Every store request can     *)
(* fail (the action's ok = FALSE case).                                    *)
(*                                                                         *)
(* Modelling conventions:                                                  *)
(*   - JS null / undefined / "" of an optional string is NullStr or "";    *)
(*     a null chain id is NoChain; a missing date is NoDate; an optional   *)
(*     object (paybackDetails) is a sequence of length 0 or 1.             *)
(*   - document ids handed out by addDoc are 1, 2, ... (nextTx); chain ids *)
(*     made by crypto.randomUUID() are 1, 2, ... (nextChain): never reused.*)
(*   - serverTimestamp() is the one instant ServerTime.                    *)
(***************************************************************************)
EXTENDS Integers, Sequences, FiniteSets, TLC

VARIABLES accounts, txs, chains, nextTx, nextChain, currentUser, calls,
          categories, nextCat

vars == <<accounts, txs, chains, nextTx, nextChain, currentUser, calls,
          categories, nextCat>>

-----------------------------------------------------------------------------
(* Bounds of the model.                                                    *)

\* number of transaction documents addDoc may create in one behaviour
MaxTxs == 3
\* number of chain ids createChainedTransactions may draw in one behaviour
MaxChains == 2
\* number of accounts createAccount may add in one behaviour
MaxNewAccounts == 2
\* number of categories createCategory may add in one behaviour
MaxNewCategories == 2

-----------------------------------------------------------------------------
(* Values.                                                                 *)

Users == {"u1", "u2"}
\* auth.currentUser === null
NoUser == "none"
NullStr == "null"
NoChain == 0
NoDate == 0
ServerTime == 9

Procs == {"p1", "p2"}
\* the processes Spec runs: one call at a time
SeqProcs == {"p1"}

\* src/theme.ts ErrorCodes, and AppError(message, code, httpStatus)
AppError(code, httpStatus) == [kind |-> code, status |-> httpStatus]
Success == [kind |-> "OK", status |-> 200]
Running == [kind |-> "RUNNING", status |-> 0]
\* an error of the storage client that no handler wrapped
RawStoreError == [kind |-> "FIRESTORE_ERROR", status |-> 0]

\* fault variant of Trim: blanks are not trimmed
TrimNothing(s) == s

\* String.prototype.trim on the strings of the model
Trim(s) == IF s \in {" ", "  "} THEN "" ELSE s

NoPayback == <<>>

\* the accounts collection once "Checking", "Savings", "Cash" and an archived
\* "Old" were created for u1 and "Checking" for u2
InitAccounts ==
    [a \in {"a1", "a2", "a3", "a4", "b1"} |->
        [userId |-> IF a = "b1" THEN "u2" ELSE "u1",
         name |-> CASE a = "a1" -> "Checking" [] a = "a2" -> "Savings"
                    [] a = "a3" -> "Cash" [] a = "a4" -> "Old" [] OTHER -> "Checking",
         color |-> "blue",
         updatedAt |-> ServerTime - 1,
         isArchived |-> (a = "a4")]]

\* the ids addDoc hands out for accounts created later, in this order
NewAccountIds == <<"n1", "n2", "n3", "n4">>

\* the order in which a collection query returns account documents
AccountOrder == <<"a1", "a2", "a3", "a4", "b1">> \o NewAccountIds

-----------------------------------------------------------------------------
(* Inputs: CreateTransactionDTO drafts and UpdateTransactionDTO patches.   *)

\* a valid expense on Checking; the other drafts differ from it in one place.
\* amountType is typeof data.amount; amount holds the value of a number.
BaseDraft ==
    [accountId |-> "a1", amount |-> 1, amountType |-> "number",
     type |-> "NEGATIVE", category |-> "FOOD", description |-> "lunch", partyName |-> "", requiresPayback |-> FALSE,
     paybackDetails |-> NoPayback, chainId |-> NoChain, transactionDate |-> NoDate]

\* leg lists handed to createChainedTransactions directly
LegLists ==
    { <<>>,
      <<BaseDraft>>,
      <<BaseDraft, [BaseDraft EXCEPT !.amount = 0]>> }

\* an UpdateTransactionDTO (src/theme.ts:69-81):
\* vals gives the keys that carry a value, undef the keys that are
\* present with the value undefined
Patch(vals, undef) == [vals |-> vals, undef |-> undef]
EmptyPatch == Patch([k \in {} |-> 0], {})

Patches ==
    { Patch([amount |-> 3, type |-> "POSITIVE", category |-> "RENT",
             description |-> "edited", partyName |-> "Bob",
             requiresPayback |-> TRUE,
             paybackDetails |-> <<[dueDate |-> 2, status |-> "",
                                   completedAt |-> NoDate]>>], {}),
      Patch([category |-> "TRANSFER"], {"amount"}) }

-----------------------------------------------------------------------------
(* Pure functions of the services.                                         *)

\* ValidationService.validateTransaction: Success, or the AppError it throws
validateTransaction(data) ==
    IF data.accountId = ""
    THEN AppError("INVALID_INPUT", 400)
    ELSE IF data.description = "" \/ Trim(data.description) = ""
    THEN AppError("INVALID_INPUT", 400)
    ELSE IF data.category = "" \/ Trim(data.category) = ""
    THEN AppError("INVALID_INPUT", 400)
    ELSE IF data.amountType # "number" \/ data.amount <= 0
    THEN AppError("INVALID_AMOUNT", 400)
    ELSE IF data.type \notin {"POSITIVE", "NEGATIVE"}
    THEN AppError("INVALID_INPUT", 400)
    ELSE IF data.requiresPayback
            /\ (data.paybackDetails = NoPayback
                \/ data.paybackDetails[1].dueDate = NoDate)
    THEN AppError("INVALID_INPUT", 400)
    ELSE IF data.paybackDetails # NoPayback
            /\ data.paybackDetails[1].dueDate = NoDate
    THEN AppError("INVALID_INPUT", 400)
    ELSE Success

\* TransactionService.prepareTransactionData: the document addDoc writes
prepareTransactionData(userId, data) ==
    [accountId |-> data.accountId,
     amount |-> data.amount,
     type |-> data.type,
     category |-> data.category,
     description |-> data.description,
     userId |-> userId,
     requiresPayback |-> data.requiresPayback,
     partyName |-> IF data.partyName = "" THEN NullStr ELSE data.partyName,
     chainId |-> data.chainId,
     createdAt |-> IF data.transactionDate # NoDate
                   THEN data.transactionDate ELSE ServerTime,
     updatedAt |-> ServerTime,
     paybackDetails |->
        IF data.requiresPayback
        THEN <<[dueDate |-> IF data.paybackDetails # NoPayback
                               /\ data.paybackDetails[1].dueDate # NoDate
                            THEN data.paybackDetails[1].dueDate ELSE ServerTime,
                status |-> "PENDING",
                completedAt |-> NoDate]>>
        ELSE NoPayback]

\* the paybackDetails object prepareUpdateData builds from the patch's
convertPayback(pb) ==
    IF pb = NoPayback THEN NoPayback
    ELSE <<[dueDate |-> pb[1].dueDate,
            status |-> IF pb[1].status = "" THEN "PENDING" ELSE pb[1].status,
            completedAt |-> pb[1].completedAt]>>

\* TransactionService.prepareUpdateData: the fields updateDoc is given
prepareUpdateData(data) ==
    [k \in (DOMAIN data.vals \cup {"updatedAt"}) \ data.undef |->
        IF k = "updatedAt" THEN ServerTime
        ELSE IF k = "paybackDetails" THEN convertPayback(data.vals[k])
        ELSE data.vals[k]]

\* the fields updateTransaction passes on for a stored TRANSFER transaction:
\* const {type, category, amount, ...allowedUpdates} = updateData
allowedUpdates(updateData) ==
    [k \in DOMAIN updateData \ {"type", "category", "amount"} |-> updateData[k]]

\* updateDoc(ref, fields) on an existing document
ApplyUpdate(doc, fields) ==
    [k \in DOMAIN doc \cup DOMAIN fields |->
        IF k \in DOMAIN fields THEN fields[k] ELSE doc[k]]

\* a collection without the documents of ids
RemoveDocs(coll, ids) == [i \in DOMAIN coll \ ids |-> coll[i]]
\* a collection with one more document
AddDoc(coll, id, doc) == [i \in DOMAIN coll \cup {id} |-> IF i = id THEN doc ELSE coll[i]]

\* TransactionService.getTransactionQueryConstraints with no date bound, as
\* getDocs evaluates it: the ids of the signed-in user's transactions of the
\* account
getTransactionQueryConstraints(uid, accountId) ==
    { i \in DOMAIN txs : txs[i].userId = uid /\ txs[i].accountId = accountId }

\* query(transactionsRef, where('chainId', '==', chainId))
chainQuery(chainId) == { i \in DOMAIN txs : txs[i].chainId = chainId }

\* query(chainedRef, where('chainId', '==', chainId))
chainRecordQuery(chainId) == { r \in DOMAIN chains : chains[r].chainId = chainId }

\* fault variant of reduceBalance: transfer legs are left out of the balance
RECURSIVE reduceBalanceSkipTransfers(_)
reduceBalanceSkipTransfers(ids) ==
    IF ids = {} THEN 0
    ELSE LET i == CHOOSE x \in ids : TRUE
             v == IF txs[i].category = "TRANSFER" THEN 0
                  ELSE IF txs[i].type = "POSITIVE" THEN txs[i].amount
                  ELSE 0 - txs[i].amount
         IN  v + reduceBalanceSkipTransfers(ids \ {i})

\* the fold of getAccountsByUser over the fetched transactions
RECURSIVE reduceBalance(_)
reduceBalance(ids) ==
    IF ids = {} THEN 0
    ELSE LET i == CHOOSE x \in ids : TRUE
         IN  (IF txs[i].type = "POSITIVE" THEN txs[i].amount ELSE 0 - txs[i].amount)
             + reduceBalance(ids \ {i})

\* the accounts query of getAccountsByUser, in the order the store returns it
RECURSIVE activeAccountsFrom(_, _)
activeAccountsFrom(userId, order) ==
    IF order = <<>> THEN <<>>
    ELSE LET a == Head(order)
             rest == activeAccountsFrom(userId, Tail(order))
         IN  IF a \in DOMAIN accounts /\ accounts[a].userId = userId
                /\ ~accounts[a].isArchived
             THEN <<a>> \o rest ELSE rest

activeAccounts(userId) == activeAccountsFrom(userId, AccountOrder)

Range(s) == { s[k] : k \in 1..Len(s) }

-----------------------------------------------------------------------------
(* Calls in flight.                                                        *)

\* a process that runs no call: the shape of every call record
Idle ==
    [op |-> "idle", pc |-> "idle", userId |-> NoUser,
     target |-> 0,              \* the transaction id the call was given
     account |-> "",            \* the account id the call was given / created
     data |-> [name |-> "", color |-> ""],  \* createAccount / updateAccount data
     category |-> "",           \* the category id the call was given / created
     categoryData |-> [name |-> "", type |-> "", icon |-> ""],
     listed |-> <<>>,           \* what getCategoriesByType returned
     draft |-> BaseDraft,       \* createTransaction's data
     legs |-> <<>>,             \* createChainedTransactions' transactions
     patch |-> EmptyPatch,      \* updateTransaction's data
     fields |-> EmptyPatch.vals,\* what updateTransaction hands to updateDoc
     chainId |-> NoChain,       \* the chain id drawn / read by the call
     docId |-> 0,               \* the id addDoc returned for the current leg
     written |-> <<>>,          \* ids of the documents the call's addDocs wrote
     createdTransactions |-> <<>>,
     pending |-> {},            \* deleteDoc requests issued and not settled
     rejected |-> FALSE,        \* some deleteDoc of the Promise.all failed
     todo |-> <<>>,             \* accounts whose balance is still to compute
     reader |-> NoUser,         \* auth.currentUser when the query was built
     balance |-> [a \in {} |-> 0],
     before |-> [a \in {} |-> 0],  \* history: balances when the transfer began
     found |-> {},              \* what a lookup returned
     startDate |-> NoDate,      \* the date range the call was given
     endDate |-> NoDate,
     rows |-> <<>>,             \* what getTransactionsByAccount returned (ids)
     loaded |-> <<>>,           \* the accounts getAccountsByUser returned
     spending |-> [c \in {} |-> 0],  \* categorySpending
     fault |-> FALSE,           \* history: a store request of the call failed
     result |-> Running]

AllIdle == \A p \in Procs : calls[p].op = "idle"

Finish(p, res) ==
    calls' = [calls EXCEPT ![p].pc = "done", ![p].result = res]

FinishFault(p, res) ==
    calls' = [calls EXCEPT ![p].pc = "done", ![p].result = res, ![p].fault = TRUE]

\* what getAccountsByUser(uid) reports when it succeeds with reader signed in
reportedBalances(uid, reader) ==
    [a \in Range(activeAccounts(uid)) |->
        reduceBalance(getTransactionQueryConstraints(reader, a))]

Init ==
    /\ accounts = InitAccounts
    /\ txs = [i \in {} |-> 0]
    /\ chains = [i \in {} |-> 0]
    /\ nextTx = 1
    /\ nextChain = 1
    /\ currentUser \in Users \cup {NoUser}
    /\ calls = [p \in Procs |-> Idle]
    /\ categories = [i \in {} |-> 0]
    /\ nextCat = 1

-----------------------------------------------------------------------------
\* the caller takes the settled promise's outcome; the process is free again
Return(p) ==
    /\ calls[p].pc = "done"
    /\ calls' = [calls EXCEPT ![p] = Idle]
    /\ UNCHANGED <<accounts, txs, chains, nextTx, nextChain, currentUser,
                 categories, nextCat>>

-----------------------------------------------------------------------------
(* TransactionService.createTransaction(userId, data)                      *)

\* the call up to its first await: validate, prepare, issue addDoc
createTransaction(p, userId, data) ==
    /\ calls[p].op = "idle"
    /\ LET v == validateTransaction(data)
           c == [Idle EXCEPT !.op = "createTransaction", !.userId = userId,
                             !.draft = data]
       IN  calls' = [calls EXCEPT ![p] =
                IF v = Success THEN [c EXCEPT !.pc = "addDoc"]
                ELSE [c EXCEPT !.pc = "done", !.result = v]]
    /\ UNCHANGED <<accounts, txs, chains, nextTx, nextChain, currentUser,
                 categories, nextCat>>

\* await addDoc(transactionsRef, newTransaction)
createTransactionAddDoc(p, ok) ==
    /\ calls[p].op = "createTransaction" /\ calls[p].pc = "addDoc"
    /\ IF ok
       THEN /\ nextTx <= MaxTxs
            /\ txs' = AddDoc(txs, nextTx,
                             prepareTransactionData(calls[p].userId, calls[p].draft))
            /\ nextTx' = nextTx + 1
            /\ calls' = [calls EXCEPT ![p].pc = "getDoc", ![p].docId = nextTx,
                                      ![p].written = <<nextTx>>]
       ELSE /\ FinishFault(p, AppError("INVALID_INPUT", 500))
            /\ UNCHANGED <<txs, nextTx>>
    /\ UNCHANGED <<accounts, chains, nextChain, currentUser,
                 categories, nextCat>>

\* await getDoc(docRef), then the exists() check and the return
createTransactionGetDoc(p, ok) ==
    /\ calls[p].op = "createTransaction" /\ calls[p].pc = "getDoc"
    /\ IF ~ok
       THEN FinishFault(p, AppError("INVALID_INPUT", 500))
       ELSE IF calls[p].docId \notin DOMAIN txs
       THEN Finish(p, AppError("INVALID_INPUT", 500))
       ELSE calls' = [calls EXCEPT ![p].pc = "done", ![p].result = Success,
                         ![p].createdTransactions = <<calls[p].docId>>]
    /\ UNCHANGED <<accounts, txs, chains, nextTx, nextChain, currentUser,
                 categories, nextCat>>

-----------------------------------------------------------------------------
(* TransactionService.createChainedTransactions(userId, transactions)      *)

\* fault variant of legData: only the first leg gets the chain id
legDataFirstOnly(c, k) ==
    IF k = 1 THEN [c.legs[k] EXCEPT !.chainId = c.chainId] ELSE c.legs[k]

\* {...transaction, chainId}: the data of leg k of call record c
legData(c, k) == [c.legs[k] EXCEPT !.chainId = c.chainId]

\* the loop body up to its await: createTransaction(userId, leg k) validates
\* and issues addDoc; what it throws is caught by the handler's catch
beginLeg(c, k) ==
    IF validateTransaction(legData(c, k)) = Success
    THEN [c EXCEPT !.pc = "legAddDoc"]
    ELSE [c EXCEPT !.pc = "done", !.result = AppError("INVALID_INPUT", 500)]

\* the call up to its first await; before is the history the transfer form's
\* property is stated with
startChained(p, userId, transactions, before) ==
    /\ calls[p].op = "idle"
    /\ IF Len(transactions) = 0
       THEN /\ calls' = [calls EXCEPT ![p] =
                    [Idle EXCEPT !.op = "createChainedTransactions",
                                 !.userId = userId, !.pc = "done",
                                 !.result = AppError("INVALID_INPUT", 400)]]
            /\ UNCHANGED nextChain
       ELSE /\ nextChain <= MaxChains
            /\ nextChain' = nextChain + 1
            /\ calls' = [calls EXCEPT ![p] =
                    beginLeg([Idle EXCEPT !.op = "createChainedTransactions",
                                          !.userId = userId,
                                          !.legs = transactions,
                                          !.chainId = nextChain,
                                          !.before = before], 1)]
    /\ UNCHANGED <<accounts, txs, chains, nextTx, currentUser,
                 categories, nextCat>>

createChainedTransactions(p, userId, transactions) ==
    startChained(p, userId, transactions, Idle.before)

\* createTransaction's await addDoc for the current leg
legAddDoc(p, ok) ==
    /\ calls[p].op = "createChainedTransactions" /\ calls[p].pc = "legAddDoc"
    /\ IF ok
       THEN /\ nextTx <= MaxTxs
            /\ txs' = AddDoc(txs, nextTx,
                    prepareTransactionData(calls[p].userId,
                        legData(calls[p], Len(calls[p].createdTransactions) + 1)))
            /\ nextTx' = nextTx + 1
            /\ calls' = [calls EXCEPT ![p].pc = "legGetDoc", ![p].docId = nextTx,
                                      ![p].written = Append(@, nextTx)]
       ELSE /\ FinishFault(p, AppError("INVALID_INPUT", 500))
            /\ UNCHANGED <<txs, nextTx>>
    /\ UNCHANGED <<accounts, chains, nextChain, currentUser,
                 categories, nextCat>>

\* fault variant of afterLeg: the chain record is written after the first leg
afterLegRecordEarly(c) ==
    [c EXCEPT !.createdTransactions = Append(@, c.docId), !.pc = "chainAddDoc"]

\* the call record after leg docId was read back: push it, then the next leg
\* or the chain record's addDoc
afterLeg(c) ==
    LET d == [c EXCEPT !.createdTransactions = Append(@, c.docId)]
    IN  IF Len(d.createdTransactions) < Len(d.legs)
        THEN beginLeg(d, Len(d.createdTransactions) + 1)
        ELSE [d EXCEPT !.pc = "chainAddDoc"]

\* createTransaction's await getDoc for the current leg
legGetDoc(p, ok) ==
    /\ calls[p].op = "createChainedTransactions" /\ calls[p].pc = "legGetDoc"
    /\ IF ~ok
       THEN FinishFault(p, AppError("INVALID_INPUT", 500))
       ELSE IF calls[p].docId \notin DOMAIN txs
       THEN Finish(p, AppError("INVALID_INPUT", 500))
       ELSE calls' = [calls EXCEPT ![p] = afterLeg(calls[p])]
    /\ UNCHANGED <<accounts, txs, chains, nextTx, nextChain, currentUser,
                 categories, nextCat>>

\* the chain record of the call
chainRecord(c) ==
    [chainId |-> c.chainId,
     userId |-> c.userId,
     transactionIds |-> c.createdTransactions,
     createdAt |-> ServerTime,
     status |-> "COMPLETED"]

\* fault variant of chainAddDoc: a failed write of the chain record rolls the
\* legs back
chainAddDocRollback(p, ok) ==
    /\ calls[p].op = "createChainedTransactions" /\ calls[p].pc = "chainAddDoc"
    /\ IF ok
       THEN /\ chains' = AddDoc(chains, calls[p].chainId, chainRecord(calls[p]))
            /\ Finish(p, Success)
            /\ UNCHANGED txs
       ELSE /\ FinishFault(p, AppError("INVALID_INPUT", 500))
            /\ txs' = RemoveDocs(txs, Range(calls[p].written))
            /\ UNCHANGED chains
    /\ UNCHANGED <<accounts, nextTx, nextChain, currentUser,
                 categories, nextCat>>

\* await addDoc(chainedRef, chainRecord); the record's document id is modelled
\* by the chain id (one record per call, one chain id per call)
chainAddDoc(p, ok) ==
    /\ calls[p].op = "createChainedTransactions" /\ calls[p].pc = "chainAddDoc"
    /\ IF ok
       THEN /\ chains' = AddDoc(chains, calls[p].chainId, chainRecord(calls[p]))
            /\ Finish(p, Success)
       ELSE /\ FinishFault(p, AppError("INVALID_INPUT", 500))
            /\ UNCHANGED chains
    /\ UNCHANGED <<accounts, txs, nextTx, nextChain, currentUser,
                 categories, nextCat>>

-----------------------------------------------------------------------------
(* TransferForm.handleSubmit                                               *)

FormAmounts == {0, 2}
FormDescriptions == {"move"}

\* the two drafts handleSubmit builds
transferTransactions(from, to, amount, description) ==
    LET suffix == IF description # "" THEN ": " \o description ELSE ""
    IN  << [BaseDraft EXCEPT !.accountId = from, !.amount = amount,
                             !.type = "NEGATIVE", !.category = "TRANSFER",
                             !.description =
                                 "Transfer to " \o accounts[to].name \o suffix],
           [BaseDraft EXCEPT !.accountId = to, !.amount = amount,
                             !.type = "POSITIVE", !.category = "TRANSFER",
                             !.description =
                                 "Transfer from " \o accounts[from].name \o suffix] >>

\* the form's accounts state is what loadAccounts got from
\* getAccountsByUser(user.uid); user is the signed-in user
handleSubmit(p, from, to, amount, description) ==
    /\ currentUser # NoUser
    /\ from # to
    /\ amount > 0
    /\ from \in Range(activeAccounts(currentUser))
    /\ to \in Range(activeAccounts(currentUser))
    /\ startChained(p, currentUser,
                    transferTransactions(from, to, amount, description),
                    reportedBalances(currentUser, currentUser))

-----------------------------------------------------------------------------
(* TransactionService.updateTransaction(transactionId, data, userId)       *)

updateTransaction(p, transactionId, data, userId) ==
    /\ calls[p].op = "idle"
    /\ calls' = [calls EXCEPT ![p] =
            [Idle EXCEPT !.op = "updateTransaction", !.pc = "getDoc",
                         !.target = transactionId, !.patch = data,
                         !.userId = userId]]
    /\ UNCHANGED <<accounts, txs, chains, nextTx, nextChain, currentUser,
                 categories, nextCat>>

\* fault variant of updateFields: the transfer fields are not stripped
updateFieldsUnlocked(doc, data) == prepareUpdateData(data)

\* what the handler hands to updateDoc for the stored document doc
updateFields(doc, data) ==
    IF doc.category = "TRANSFER"
    THEN allowedUpdates(prepareUpdateData(data))
    ELSE prepareUpdateData(data)

\* fault variant of updateGetDoc: the owner is not checked
updateGetDocNoOwnerCheck(p, ok) ==
    /\ calls[p].op = "updateTransaction" /\ calls[p].pc = "getDoc"
    /\ LET id == calls[p].target
       IN  IF ~ok
           THEN FinishFault(p, AppError("INVALID_INPUT", 500))
           ELSE IF id \notin DOMAIN txs
           THEN Finish(p, AppError("TRANSACTION_NOT_FOUND", 404))
           ELSE calls' = [calls EXCEPT ![p].pc = "updateDoc",
                             ![p].fields = updateFields(txs[id], calls[p].patch)]
    /\ UNCHANGED <<accounts, txs, chains, nextTx, nextChain, currentUser,
                 categories, nextCat>>

\* await getDoc(transactionRef), the two checks, and the updateDoc request
updateGetDoc(p, ok) ==
    /\ calls[p].op = "updateTransaction" /\ calls[p].pc = "getDoc"
    /\ LET id == calls[p].target
       IN  IF ~ok
           THEN FinishFault(p, AppError("INVALID_INPUT", 500))
           ELSE IF id \notin DOMAIN txs
           THEN Finish(p, AppError("TRANSACTION_NOT_FOUND", 404))
           ELSE IF txs[id].userId # calls[p].userId
           THEN Finish(p, AppError("UNAUTHORIZED", 403))
           ELSE calls' = [calls EXCEPT ![p].pc = "updateDoc",
                             ![p].fields = updateFields(txs[id], calls[p].patch)]
    /\ UNCHANGED <<accounts, txs, chains, nextTx, nextChain, currentUser,
                 categories, nextCat>>

\* await updateDoc(transactionRef, fields): the store rejects an update of a
\* document that no longer exists
updateDoc(p, ok) ==
    /\ calls[p].op = "updateTransaction" /\ calls[p].pc = "updateDoc"
    /\ LET id == calls[p].target
       IN  IF ok /\ id \in DOMAIN txs
           THEN /\ txs' = [txs EXCEPT ![id] = ApplyUpdate(@, calls[p].fields)]
                /\ Finish(p, Success)
           ELSE /\ FinishFault(p, AppError("INVALID_INPUT", 500))
                /\ UNCHANGED txs
    /\ UNCHANGED <<accounts, chains, nextTx, nextChain, currentUser,
                 categories, nextCat>>

-----------------------------------------------------------------------------
(* TransactionService.deleteTransaction(transactionId, userId)             *)
(* The catch block wraps every error, the handler's own AppErrors too.     *)
(* The deleteDocs of one Promise.all are requests in flight together; the  *)
(* call is modelled as settled once all of them have settled.              *)

deleteTransaction(p, transactionId, userId) ==
    /\ calls[p].op = "idle"
    /\ calls' = [calls EXCEPT ![p] =
            [Idle EXCEPT !.op = "deleteTransaction", !.pc = "getDoc",
                         !.target = transactionId, !.userId = userId]]
    /\ UNCHANGED <<accounts, txs, chains, nextTx, nextChain, currentUser,
                 categories, nextCat>>

\* await getDoc(transactionRef), the two checks, and the next request
deleteGetDoc(p, ok) ==
    /\ calls[p].op = "deleteTransaction" /\ calls[p].pc = "getDoc"
    /\ LET id == calls[p].target
       IN  IF ~ok
           THEN FinishFault(p, AppError("INVALID_INPUT", 500))
           ELSE IF id \notin DOMAIN txs
           THEN Finish(p, AppError("INVALID_INPUT", 500))
           ELSE IF txs[id].userId # calls[p].userId
           THEN Finish(p, AppError("INVALID_INPUT", 500))
           ELSE IF txs[id].chainId # NoChain
           THEN calls' = [calls EXCEPT ![p].pc = "chainQuery",
                                       ![p].chainId = txs[id].chainId]
           ELSE calls' = [calls EXCEPT ![p].pc = "deleteDoc"]
    /\ UNCHANGED <<accounts, txs, chains, nextTx, nextChain, currentUser,
                 categories, nextCat>>

\* the call record once a Promise.all over requests was issued: with no
\* request it resolves at once
awaitAll(c, requests, pcBusy, cNext) ==
    IF requests = {} THEN cNext
    ELSE [c EXCEPT !.pc = pcBusy, !.pending = requests, !.rejected = FALSE]

\* fault variant of afterLegsDeleted: the chain record is left in place
afterLegsDeletedSkipRecord(c) ==
    [c EXCEPT !.pc = "done", !.pending = {}, !.result = Success]

\* the call record once the chain's transactions are deleted: the chain
\* record query is in flight
afterLegsDeleted(c) == [c EXCEPT !.pc = "recordQuery", !.pending = {}]

\* await getDocs(chainQuery), then one deleteDoc per returned document
deleteChainQuery(p, ok) ==
    /\ calls[p].op = "deleteTransaction" /\ calls[p].pc = "chainQuery"
    /\ IF ok
       THEN calls' = [calls EXCEPT ![p] =
                awaitAll(calls[p], chainQuery(calls[p].chainId), "deleteLegs",
                         afterLegsDeleted(calls[p]))]
       ELSE FinishFault(p, AppError("INVALID_INPUT", 500))
    /\ UNCHANGED <<accounts, txs, chains, nextTx, nextChain, currentUser,
                 categories, nextCat>>

\* the call record after one request of a Promise.all settled
settle(c, id, ok, cNext) ==
    LET rej == c.rejected \/ ~ok
        left == c.pending \ {id}
    IN  IF left # {} THEN [c EXCEPT !.pending = left, !.rejected = rej]
        ELSE IF rej
        THEN [c EXCEPT !.pending = {}, !.rejected = TRUE, !.pc = "done",
                       !.fault = TRUE, !.result = AppError("INVALID_INPUT", 500)]
        ELSE cNext

\* one deleteDoc(doc.ref) of the chain's transactions settles
deleteLeg(p, id, ok) ==
    /\ calls[p].op = "deleteTransaction" /\ calls[p].pc = "deleteLegs"
    /\ id \in calls[p].pending
    /\ txs' = IF ok THEN RemoveDocs(txs, {id}) ELSE txs
    /\ calls' = [calls EXCEPT ![p] =
            settle(calls[p], id, ok, afterLegsDeleted(calls[p]))]
    /\ UNCHANGED <<accounts, chains, nextTx, nextChain, currentUser,
                 categories, nextCat>>

\* the call record once the cascade is complete
cascadeDone(c) ==
    [c EXCEPT !.pc = "done", !.pending = {}, !.result = Success]

\* await getDocs(chainRecordQuery), then one deleteDoc per chain record
deleteRecordQuery(p, ok) ==
    /\ calls[p].op = "deleteTransaction" /\ calls[p].pc = "recordQuery"
    /\ IF ok
       THEN calls' = [calls EXCEPT ![p] =
                awaitAll(calls[p], chainRecordQuery(calls[p].chainId),
                         "deleteRecords", cascadeDone(calls[p]))]
       ELSE FinishFault(p, AppError("INVALID_INPUT", 500))
    /\ UNCHANGED <<accounts, txs, chains, nextTx, nextChain, currentUser,
                 categories, nextCat>>

\* one deleteDoc(doc.ref) of the chain records settles
deleteRecord(p, r, ok) ==
    /\ calls[p].op = "deleteTransaction" /\ calls[p].pc = "deleteRecords"
    /\ r \in calls[p].pending
    /\ chains' = IF ok THEN RemoveDocs(chains, {r}) ELSE chains
    /\ calls' = [calls EXCEPT ![p] = settle(calls[p], r, ok, cascadeDone(calls[p]))]
    /\ UNCHANGED <<accounts, txs, nextTx, nextChain, currentUser,
                 categories, nextCat>>

\* await deleteDoc(transactionRef) of a transaction without chain id
deleteDoc(p, ok) ==
    /\ calls[p].op = "deleteTransaction" /\ calls[p].pc = "deleteDoc"
    /\ IF ok
       THEN /\ txs' = RemoveDocs(txs, {calls[p].target})
            /\ Finish(p, Success)
       ELSE /\ FinishFault(p, AppError("INVALID_INPUT", 500))
            /\ UNCHANGED txs
    /\ UNCHANGED <<accounts, chains, nextTx, nextChain, currentUser,
                 categories, nextCat>>

-----------------------------------------------------------------------------
(* AccountService.getAccountsByUser(userId)                                *)
(* The handler has no try/catch: what it or the store throws reaches the   *)
(* caller as thrown.                                                       *)

getAccountsByUser(p, userId) ==
    /\ calls[p].op = "idle"
    /\ calls' = [calls EXCEPT ![p] =
            [Idle EXCEPT !.op = "getAccountsByUser", !.pc = "accountsQuery",
                         !.userId = userId]]
    /\ UNCHANGED <<accounts, txs, chains, nextTx, nextChain, currentUser,
                 categories, nextCat>>

\* the balance loop up to its await: getTransactionsByAccount(account.id)
\* checks auth.currentUser, builds the constraints and issues getDocs
nextBalance(c) ==
    IF c.todo = <<>>
    THEN [c EXCEPT !.pc = "done", !.result = Success]
    ELSE IF currentUser = NoUser
    THEN [c EXCEPT !.pc = "done", !.result = AppError("INVALID_INPUT", 400)]
    ELSE [c EXCEPT !.pc = "transactionsQuery", !.reader = currentUser]

\* await getDocs(q) of the accounts, then the first turn of the balance loop
accountsQuery(p, ok) ==
    /\ calls[p].op = "getAccountsByUser" /\ calls[p].pc = "accountsQuery"
    /\ IF ok
       THEN calls' = [calls EXCEPT ![p] =
                nextBalance([calls[p] EXCEPT !.todo = activeAccounts(calls[p].userId)])]
       ELSE FinishFault(p, RawStoreError)
    /\ UNCHANGED <<accounts, txs, chains, nextTx, nextChain, currentUser,
                 categories, nextCat>>

\* await getDocs(q) inside getTransactionsByAccount, the reduce, and the next
\* turn of the loop
transactionsQuery(p, ok) ==
    /\ calls[p].op = "getAccountsByUser" /\ calls[p].pc = "transactionsQuery"
    /\ IF ok
       THEN LET a == Head(calls[p].todo)
                b == reduceBalance(getTransactionQueryConstraints(calls[p].reader, a))
            IN  calls' = [calls EXCEPT ![p] =
                    nextBalance([calls[p] EXCEPT
                        !.todo = Tail(@),
                        !.balance = [x \in DOMAIN @ \cup {a} |->
                                        IF x = a THEN b ELSE @[x]]])]
       ELSE FinishFault(p, AppError("INVALID_INPUT", 500))
    /\ UNCHANGED <<accounts, txs, chains, nextTx, nextChain, currentUser,
                 categories, nextCat>>

-----------------------------------------------------------------------------
(* TransactionService.getChainedTransactions(chainId)                      *)

getChainedTransactions(p, chainId) ==
    /\ calls[p].op = "idle"
    /\ calls' = [calls EXCEPT ![p] =
            IF chainId = NoChain
            THEN [Idle EXCEPT !.op = "getChainedTransactions", !.pc = "done",
                              !.result = AppError("INVALID_INPUT", 400)]
            ELSE [Idle EXCEPT !.op = "getChainedTransactions",
                              !.pc = "chainedQuery", !.chainId = chainId]]
    /\ UNCHANGED <<accounts, txs, chains, nextTx, nextChain, currentUser,
                 categories, nextCat>>

\* await getDocs(q), then the conversion of the returned documents
chainedQuery(p, ok) ==
    /\ calls[p].op = "getChainedTransactions" /\ calls[p].pc = "chainedQuery"
    /\ IF ok
       THEN calls' = [calls EXCEPT ![p].pc = "done", ![p].result = Success,
                         ![p].found = chainQuery(calls[p].chainId)]
       ELSE FinishFault(p, AppError("INVALID_INPUT", 500))
    /\ UNCHANGED <<accounts, txs, chains, nextTx, nextChain, currentUser,
                 categories, nextCat>>

-----------------------------------------------------------------------------
(* TransactionService.getTransactionById(transactionId, userId)            *)

getTransactionById(p, transactionId, userId) ==
    /\ calls[p].op = "idle"
    /\ calls' = [calls EXCEPT ![p] =
            [Idle EXCEPT !.op = "getTransactionById", !.pc = "getDoc",
                         !.target = transactionId, !.userId = userId]]
    /\ UNCHANGED <<accounts, txs, chains, nextTx, nextChain, currentUser,
                 categories, nextCat>>

\* await getDoc(transactionRef), the two checks, the conversion; AppErrors
\* pass the catch block as they are
byIdGetDoc(p, ok) ==
    /\ calls[p].op = "getTransactionById" /\ calls[p].pc = "getDoc"
    /\ LET id == calls[p].target
       IN  IF ~ok
           THEN FinishFault(p, AppError("INVALID_INPUT", 500))
           ELSE IF id \notin DOMAIN txs
           THEN Finish(p, AppError("TRANSACTION_NOT_FOUND", 404))
           ELSE IF txs[id].userId # calls[p].userId
           THEN Finish(p, AppError("UNAUTHORIZED", 403))
           ELSE calls' = [calls EXCEPT ![p].pc = "done", ![p].result = Success,
                             ![p].found = {id}]
    /\ UNCHANGED <<accounts, txs, chains, nextTx, nextChain, currentUser,
                 categories, nextCat>>

-----------------------------------------------------------------------------
(* AccountService.createAccount(userId, data)                              *)
(* The handler has no try/catch: what it or the store throws reaches the   *)
(* caller as thrown.                                                       *)

\* ValidationService.validateAccount: Success, or the AppError it throws
validateAccount(data) ==
    IF data.name = "" \/ Trim(data.name) = ""
    THEN AppError("INVALID_INPUT", 400)
    ELSE IF data.color = "" \/ Trim(data.color) = ""
    THEN AppError("INVALID_INPUT", 400)
    ELSE Success

\* fault variant of duplicateQuery: archived accounts count as duplicates
duplicateQueryWithArchived(userId, name) ==
    { a \in DOMAIN accounts :
        accounts[a].userId = userId /\ accounts[a].name = name }

\* duplicateQuery: the owner's non-archived accounts of exactly that name
duplicateQuery(userId, name) ==
    { a \in DOMAIN accounts :
        /\ accounts[a].userId = userId
        /\ accounts[a].name = name
        /\ ~accounts[a].isArchived }

\* the id addDoc gives the next account document
freshAccountId ==
    NewAccountIds[Cardinality(DOMAIN accounts \cap Range(NewAccountIds)) + 1]

\* the call up to its first await: validate, issue the duplicates query
createAccount(p, userId, data) ==
    /\ calls[p].op = "idle"
    /\ LET v == validateAccount(data)
           c == [Idle EXCEPT !.op = "createAccount", !.userId = userId,
                             !.data = data]
       IN  calls' = [calls EXCEPT ![p] =
                IF v # Success THEN [c EXCEPT !.pc = "done", !.result = v]
                ELSE [c EXCEPT !.pc = "duplicatesQuery"]]
    /\ UNCHANGED <<accounts, txs, chains, nextTx, nextChain, currentUser,
                 categories, nextCat>>

\* await getDocs(duplicateQuery), the duplicate check, and the addDoc request
duplicatesQuery(p, ok) ==
    /\ calls[p].op = "createAccount" /\ calls[p].pc = "duplicatesQuery"
    /\ IF ~ok
       THEN FinishFault(p, RawStoreError)
       ELSE IF duplicateQuery(calls[p].userId, calls[p].data.name) # {}
       THEN Finish(p, AppError("ACCOUNT_EXISTS", 400))
       ELSE calls' = [calls EXCEPT ![p].pc = "accountAddDoc"]
    /\ UNCHANGED <<accounts, txs, chains, nextTx, nextChain, currentUser,
                 categories, nextCat>>

\* await addDoc(accountsRef, newAccount), and the getDoc request
accountAddDoc(p, ok) ==
    /\ calls[p].op = "createAccount" /\ calls[p].pc = "accountAddDoc"
    /\ IF ok
       THEN /\ Cardinality(DOMAIN accounts \cap Range(NewAccountIds)) < MaxNewAccounts
            /\ accounts' = AddDoc(accounts, freshAccountId,
                              [userId |-> calls[p].userId,
                               name |-> calls[p].data.name,
                               color |-> calls[p].data.color,
                               updatedAt |-> ServerTime,
                               isArchived |-> FALSE])
            /\ calls' = [calls EXCEPT ![p].pc = "accountGetDoc",
                                      ![p].account = freshAccountId]
       ELSE /\ FinishFault(p, RawStoreError)
            /\ UNCHANGED accounts
    /\ UNCHANGED <<txs, chains, nextTx, nextChain, currentUser,
                 categories, nextCat>>

\* await getDoc(docRef), the exists check, the conversion
accountGetDoc(p, ok) ==
    /\ calls[p].op = "createAccount" /\ calls[p].pc = "accountGetDoc"
    /\ IF ~ok
       THEN FinishFault(p, RawStoreError)
       ELSE IF calls[p].account \notin DOMAIN accounts
       THEN Finish(p, AppError("INVALID_INPUT", 500))
       ELSE Finish(p, Success)
    /\ UNCHANGED <<accounts, txs, chains, nextTx, nextChain, currentUser,
                 categories, nextCat>>

-----------------------------------------------------------------------------
(* AccountService.updateAccount(accountId, data)                           *)

updateAccount(p, accountId, data) ==
    /\ calls[p].op = "idle"
    /\ calls' = [calls EXCEPT ![p] =
            [Idle EXCEPT !.op = "updateAccount", !.pc = "accountDoc",
                         !.account = accountId, !.data = data]]
    /\ UNCHANGED <<accounts, txs, chains, nextTx, nextChain, currentUser,
                 categories, nextCat>>

\* await getDoc(accountRef), the exists check, and the updateDoc request
updateAccountGetDoc(p, ok) ==
    /\ calls[p].op = "updateAccount" /\ calls[p].pc = "accountDoc"
    /\ IF ~ok
       THEN FinishFault(p, AppError("INVALID_INPUT", 500))
       ELSE IF calls[p].account \notin DOMAIN accounts
       THEN Finish(p, AppError("ACCOUNT_NOT_FOUND", 404))
       ELSE calls' = [calls EXCEPT ![p].pc = "accountUpdateDoc"]
    /\ UNCHANGED <<accounts, txs, chains, nextTx, nextChain, currentUser,
                 categories, nextCat>>

\* await updateDoc(accountRef, {...data, updatedAt})
updateAccountUpdateDoc(p, ok) ==
    /\ calls[p].op = "updateAccount" /\ calls[p].pc = "accountUpdateDoc"
    /\ IF ok
       THEN /\ accounts' = [accounts EXCEPT
                               ![calls[p].account].name = calls[p].data.name,
                               ![calls[p].account].color = calls[p].data.color,
                               ![calls[p].account].updatedAt = ServerTime]
            /\ Finish(p, Success)
       ELSE /\ FinishFault(p, AppError("INVALID_INPUT", 500))
            /\ UNCHANGED accounts
    /\ UNCHANGED <<txs, chains, nextTx, nextChain, currentUser,
                 categories, nextCat>>

-----------------------------------------------------------------------------
(* AccountService.deleteAccount(accountId, userId)                         *)

deleteAccount(p, accountId, userId) ==
    /\ calls[p].op = "idle"
    /\ calls' = [calls EXCEPT ![p] =
            [Idle EXCEPT !.op = "deleteAccount", !.pc = "accountDoc",
                         !.account = accountId, !.userId = userId]]
    /\ UNCHANGED <<accounts, txs, chains, nextTx, nextChain, currentUser,
                 categories, nextCat>>

\* await getDoc(accountRef), the two checks, and the updateDoc request
deleteAccountGetDoc(p, ok) ==
    /\ calls[p].op = "deleteAccount" /\ calls[p].pc = "accountDoc"
    /\ LET id == calls[p].account
       IN  IF ~ok
           THEN FinishFault(p, AppError("INVALID_INPUT", 500))
           ELSE IF id \notin DOMAIN accounts
           THEN Finish(p, AppError("ACCOUNT_NOT_FOUND", 404))
           ELSE IF accounts[id].userId # calls[p].userId
           THEN Finish(p, AppError("UNAUTHORIZED", 403))
           ELSE calls' = [calls EXCEPT ![p].pc = "archiveUpdateDoc"]
    /\ UNCHANGED <<accounts, txs, chains, nextTx, nextChain, currentUser,
                 categories, nextCat>>

\* fault variant of archiveUpdateDoc: the account document is removed
archiveRemovesDoc(p, ok) ==
    /\ calls[p].op = "deleteAccount" /\ calls[p].pc = "archiveUpdateDoc"
    /\ IF ok
       THEN /\ accounts' = RemoveDocs(accounts, {calls[p].account})
            /\ Finish(p, Success)
       ELSE /\ FinishFault(p, AppError("INVALID_INPUT", 500))
            /\ UNCHANGED accounts
    /\ UNCHANGED <<txs, chains, nextTx, nextChain, currentUser,
                 categories, nextCat>>

\* await updateDoc(accountRef, {isArchived: true, updatedAt})
archiveUpdateDoc(p, ok) ==
    /\ calls[p].op = "deleteAccount" /\ calls[p].pc = "archiveUpdateDoc"
    /\ IF ok
       THEN /\ accounts' = [accounts EXCEPT
                               ![calls[p].account].isArchived = TRUE,
                               ![calls[p].account].updatedAt = ServerTime]
            /\ Finish(p, Success)
       ELSE /\ FinishFault(p, AppError("INVALID_INPUT", 500))
            /\ UNCHANGED accounts
    /\ UNCHANGED <<txs, chains, nextTx, nextChain, currentUser,
                 categories, nextCat>>

-----------------------------------------------------------------------------
(* CategoryService (src/services/categories.ts)                            *)

\* defaultCategories, in the order of the source
defaultCategories ==
    << [id |-> "default-food", name |-> "Food & Dining", type |-> "EXPENSE", isCustom |-> FALSE],
       [id |-> "default-transport", name |-> "Transportation", type |-> "EXPENSE", isCustom |-> FALSE],
       [id |-> "default-shopping", name |-> "Shopping", type |-> "EXPENSE", isCustom |-> FALSE],
       [id |-> "default-bills", name |-> "Bills & Utilities", type |-> "EXPENSE", isCustom |-> FALSE],
       [id |-> "default-entertainment", name |-> "Entertainment", type |-> "EXPENSE", isCustom |-> FALSE],
       [id |-> "default-healthcare", name |-> "Healthcare", type |-> "EXPENSE", isCustom |-> FALSE],
       [id |-> "default-home", name |-> "Home", type |-> "EXPENSE", isCustom |-> FALSE],
       [id |-> "default-education", name |-> "Education", type |-> "EXPENSE", isCustom |-> FALSE],
       [id |-> "default-salary", name |-> "Salary", type |-> "INCOME", isCustom |-> FALSE],
       [id |-> "default-investments", name |-> "Investments", type |-> "INCOME", isCustom |-> FALSE],
       [id |-> "default-freelance", name |-> "Freelance", type |-> "INCOME", isCustom |-> FALSE],
       [id |-> "default-gifts", name |-> "Gifts", type |-> "INCOME", isCustom |-> FALSE],
       [id |-> "default-transfer", name |-> "Account Transfer", type |-> "SELFTRANSFER", isCustom |-> FALSE] >>

\* the ids addDoc hands out for categories, in this order
NewCategoryIds == <<"c1", "c2", "c3", "c4">>

\* the lower-case names of the model in alphabetical order
Alphabet ==
    << "account transfer", "bills & utilities", "education", "entertainment",
       "food & dining", "freelance", "gifts", "healthcare", "home",
       "investments", "pets", "salary", "shopping", "transportation" >>

\* String.prototype.toLowerCase on the names of the model
toLowerCase(name) ==
    CASE name = "Account Transfer" -> "account transfer"
      [] name = "Bills & Utilities" -> "bills & utilities"
      [] name = "Education" -> "education"
      [] name = "Entertainment" -> "entertainment"
      [] name = "Food & Dining" -> "food & dining"
      [] name = "Freelance" -> "freelance"
      [] name = "Gifts" -> "gifts"
      [] name = "Healthcare" -> "healthcare"
      [] name = "Home" -> "home"
      [] name = "HOME" -> "home"
      [] name = "Investments" -> "investments"
      [] name = "Pets" -> "pets"
      [] name = "Salary" -> "salary"
      [] name = "Shopping" -> "shopping"
      [] name = "Transportation" -> "transportation"
      [] OTHER -> name

\* the place of a name in the alphabetical order of the lower-case names
letterRank(name) ==
    CHOOSE k \in 1..Len(Alphabet) : Alphabet[k] = toLowerCase(name)

\* the number of upper-case letters that set a name apart from its lower case
caseRank(name) ==
    IF name = toLowerCase(name) THEN 0 ELSE IF name = "HOME" THEN 2 ELSE 1

\* a.localeCompare(b) < 0: by letters first, lower case before upper case
\* between names of the same letters
localeBefore(a, b) ==
    \/ letterRank(a) < letterRank(b)
    \/ letterRank(a) = letterRank(b) /\ caseRank(a) < caseRank(b)

\* fault variant of sortsBefore: the names alone decide the order
sortsByNameOnly(a, b) ==
    localeBefore(a.name, b.name)

\* the comparator of getCategoriesByType's sort is negative for (a, b)
sortsBefore(a, b) ==
    IF a.isCustom = b.isCustom THEN localeBefore(a.name, b.name)
    ELSE ~a.isCustom

\* the place of x in a sorted sequence: after every element not sorted after it
RECURSIVE insertSorted(_, _)
insertSorted(sorted, x) ==
    IF sorted = <<>> THEN <<x>>
    ELSE IF sortsBefore(x, Head(sorted)) THEN <<x>> \o sorted
    ELSE <<Head(sorted)>> \o insertSorted(Tail(sorted), x)

\* Array.prototype.sort with the comparator (a stable sort)
RECURSIVE sortCategories(_)
sortCategories(list) ==
    IF list = <<>> THEN <<>>
    ELSE insertSorted(sortCategories(SubSeq(list, 1, Len(list) - 1)),
                      list[Len(list)])

\* the stored categories of a type as the query returns them (in id order)
RECURSIVE customCategoriesFrom(_, _)
customCategoriesFrom(type, ids) ==
    IF ids = <<>> THEN <<>>
    ELSE LET i == Head(ids)
             rest == customCategoriesFrom(type, Tail(ids))
         IN  IF i \in DOMAIN categories /\ categories[i].type = type
             THEN <<[id |-> i, name |-> categories[i].name,
                     type |-> categories[i].type,
                     isCustom |-> categories[i].isCustom]>> \o rest
             ELSE rest

\* this.defaultCategories.filter(cat => cat.type === type)
defaultCategoriesOfType(type) ==
    SelectSeq(defaultCategories, LAMBDA cat : cat.type = type)

\* what getCategoriesByType(type) returns when its query succeeds
allCategoriesSorted(type) ==
    sortCategories(defaultCategoriesOfType(type)
                   \o customCategoriesFrom(type, NewCategoryIds))

\* CategoryService.getCategoriesByType(type) up to its await
getCategoriesByType(p, type) ==
    /\ calls[p].op = "idle"
    /\ calls' = [calls EXCEPT ![p] =
            LET c == [Idle EXCEPT !.op = "getCategoriesByType",
                                  !.categoryData.type = type]
            IN  IF type = ""
                THEN [c EXCEPT !.pc = "done", !.result = AppError("INVALID_INPUT", 400)]
                ELSE [c EXCEPT !.pc = "categoriesQuery"]]
    /\ UNCHANGED <<accounts, txs, chains, nextTx, nextChain, currentUser,
                   categories, nextCat>>

\* await getDocs(q), the merge with the defaults and the sort
categoriesQuery(p, ok) ==
    /\ calls[p].op = "getCategoriesByType" /\ calls[p].pc = "categoriesQuery"
    /\ IF ok
       THEN calls' = [calls EXCEPT ![p].pc = "done", ![p].result = Success,
                         ![p].listed = allCategoriesSorted(calls[p].categoryData.type)]
       ELSE FinishFault(p, AppError("INVALID_INPUT", 500))
    /\ UNCHANGED <<accounts, txs, chains, nextTx, nextChain, currentUser,
                   categories, nextCat>>

\* fault variant of isDuplicate: the names are compared as they are
isDuplicateExact(existingCategories, name) ==
    \E k \in 1..Len(existingCategories) : existingCategories[k].name = name

\* existingCategories.some(cat => cat.name.toLowerCase() === name.toLowerCase())
isDuplicate(existingCategories, name) ==
    \E k \in 1..Len(existingCategories) :
        toLowerCase(existingCategories[k].name) = toLowerCase(name)

\* CategoryService.createCategory(data, userId) up to the await inside
\* getCategoriesByType(data.type)
createCategory(p, data, userId) ==
    /\ calls[p].op = "idle"
    /\ calls' = [calls EXCEPT ![p] =
            LET c == [Idle EXCEPT !.op = "createCategory", !.userId = userId,
                                  !.categoryData = data]
            IN  IF data.type = ""
                THEN [c EXCEPT !.pc = "done", !.result = AppError("INVALID_INPUT", 400)]
                ELSE [c EXCEPT !.pc = "existingQuery"]]
    /\ UNCHANGED <<accounts, txs, chains, nextTx, nextChain, currentUser,
                   categories, nextCat>>

\* await this.getCategoriesByType(data.type), the duplicate check, and the
\* addDoc request
existingQuery(p, ok) ==
    /\ calls[p].op = "createCategory" /\ calls[p].pc = "existingQuery"
    /\ LET data == calls[p].categoryData
       IN  IF ~ok
           THEN FinishFault(p, AppError("INVALID_INPUT", 500))
           ELSE IF isDuplicate(allCategoriesSorted(data.type), data.name)
           THEN Finish(p, AppError("INVALID_INPUT", 400))
           ELSE calls' = [calls EXCEPT ![p].pc = "categoryAddDoc"]
    /\ UNCHANGED <<accounts, txs, chains, nextTx, nextChain, currentUser,
                   categories, nextCat>>

\* the document createCategory writes
newCategory(data, userId) ==
    [name |-> data.name, type |-> data.type, icon |-> data.icon,
     isCustom |-> TRUE, userId |-> userId, updatedAt |-> ServerTime]

\* await addDoc(categoriesRef, newCategory), and the getDoc request
categoryAddDoc(p, ok) ==
    /\ calls[p].op = "createCategory" /\ calls[p].pc = "categoryAddDoc"
    /\ IF ok
       THEN /\ nextCat <= MaxNewCategories
            /\ categories' = AddDoc(categories, NewCategoryIds[nextCat],
                                newCategory(calls[p].categoryData, calls[p].userId))
            /\ nextCat' = nextCat + 1
            /\ calls' = [calls EXCEPT ![p].pc = "categoryGetDoc",
                                      ![p].category = NewCategoryIds[nextCat]]
       ELSE /\ FinishFault(p, AppError("INVALID_INPUT", 500))
            /\ UNCHANGED <<categories, nextCat>>
    /\ UNCHANGED <<accounts, txs, chains, nextTx, nextChain, currentUser>>

\* await getDoc(docRef), the exists check, the returned category
categoryGetDoc(p, ok) ==
    /\ calls[p].op = "createCategory" /\ calls[p].pc = "categoryGetDoc"
    /\ IF ~ok
       THEN FinishFault(p, AppError("INVALID_INPUT", 500))
       ELSE IF calls[p].category \notin DOMAIN categories
       THEN Finish(p, AppError("INVALID_INPUT", 500))
       ELSE Finish(p, Success)
    /\ UNCHANGED <<accounts, txs, chains, nextTx, nextChain, currentUser,
                   categories, nextCat>>

\* CategoryService.updateCategory(categoryId, data, userId) up to await getDoc;
\* data is a Partial<CreateCategoryDTO> that carries a name
updateCategory(p, categoryId, data, userId) ==
    /\ calls[p].op = "idle"
    /\ calls' = [calls EXCEPT ![p] =
            [Idle EXCEPT !.op = "updateCategory", !.pc = "categoryDoc",
                         !.category = categoryId, !.categoryData = data,
                         !.userId = userId]]
    /\ UNCHANGED <<accounts, txs, chains, nextTx, nextChain, currentUser,
                   categories, nextCat>>

\* fault variant of checkCategory: the owner is not compared
checkCategoryAnyOwner(id, userId) ==
    IF id \notin DOMAIN categories
    THEN AppError("INVALID_INPUT", 404)
    ELSE Success

\* the exists and owner checks of updateCategory and deleteCategory: Success,
\* or the AppError thrown
checkCategory(id, userId) ==
    IF id \notin DOMAIN categories
    THEN AppError("INVALID_INPUT", 404)
    ELSE IF ~categories[id].isCustom \/ categories[id].userId # userId
    THEN AppError("UNAUTHORIZED", 403)
    ELSE Success

\* await getDoc(categoryRef), the two checks, and the updateDoc request
updateCategoryGetDoc(p, ok) ==
    /\ calls[p].op = "updateCategory" /\ calls[p].pc = "categoryDoc"
    /\ LET v == checkCategory(calls[p].category, calls[p].userId)
       IN  IF ~ok THEN FinishFault(p, AppError("INVALID_INPUT", 500))
           ELSE IF v # Success THEN Finish(p, v)
           ELSE calls' = [calls EXCEPT ![p].pc = "categoryUpdateDoc"]
    /\ UNCHANGED <<accounts, txs, chains, nextTx, nextChain, currentUser,
                   categories, nextCat>>

\* await updateDoc(categoryRef, {...data, updatedAt}); updateDoc fails on a
\* document that is gone
updateCategoryUpdateDoc(p, ok) ==
    /\ calls[p].op = "updateCategory" /\ calls[p].pc = "categoryUpdateDoc"
    /\ IF ok /\ calls[p].category \in DOMAIN categories
       THEN /\ categories' = [categories EXCEPT
                                 ![calls[p].category].name = calls[p].categoryData.name,
                                 ![calls[p].category].updatedAt = ServerTime]
            /\ Finish(p, Success)
       ELSE /\ FinishFault(p, AppError("INVALID_INPUT", 500))
            /\ UNCHANGED categories
    /\ UNCHANGED <<accounts, txs, chains, nextTx, nextChain, currentUser, nextCat>>

\* CategoryService.deleteCategory(categoryId, userId) up to await getDoc
deleteCategory(p, categoryId, userId) ==
    /\ calls[p].op = "idle"
    /\ calls' = [calls EXCEPT ![p] =
            [Idle EXCEPT !.op = "deleteCategory", !.pc = "categoryDoc",
                         !.category = categoryId, !.userId = userId]]
    /\ UNCHANGED <<accounts, txs, chains, nextTx, nextChain, currentUser,
                   categories, nextCat>>

\* await getDoc(categoryRef), the two checks, and the deleteDoc request
deleteCategoryGetDoc(p, ok) ==
    /\ calls[p].op = "deleteCategory" /\ calls[p].pc = "categoryDoc"
    /\ LET v == checkCategory(calls[p].category, calls[p].userId)
       IN  IF ~ok THEN FinishFault(p, AppError("INVALID_INPUT", 500))
           ELSE IF v # Success THEN Finish(p, v)
           ELSE calls' = [calls EXCEPT ![p].pc = "categoryDeleteDoc"]
    /\ UNCHANGED <<accounts, txs, chains, nextTx, nextChain, currentUser,
                   categories, nextCat>>

\* await deleteDoc(categoryRef)
categoryDeleteDoc(p, ok) ==
    /\ calls[p].op = "deleteCategory" /\ calls[p].pc = "categoryDeleteDoc"
    /\ IF ok
       THEN /\ categories' = RemoveDocs(categories, {calls[p].category})
            /\ Finish(p, Success)
       ELSE /\ FinishFault(p, AppError("INVALID_INPUT", 500))
            /\ UNCHANGED categories
    /\ UNCHANGED <<accounts, txs, chains, nextTx, nextChain, currentUser, nextCat>>

-----------------------------------------------------------------------------
(* TransactionService.getTransactionsByAccount(accountId, startDate?,      *)
(* endDate?) and StatsService.getSpendingByCategory(userId, startDate,     *)
(* endDate)                                                                *)

\* fault variant of queryByFilters: the date bounds are exclusive
queryByFiltersExclusive(uid, accountId, startDate, endDate) ==
    { i \in DOMAIN txs :
        /\ txs[i].userId = uid
        /\ txs[i].accountId = accountId
        /\ (startDate # NoDate => txs[i].createdAt > startDate)
        /\ (endDate # NoDate => txs[i].createdAt < endDate) }

\* the documents the constraints of getTransactionQueryConstraints select:
\* userId, accountId, and each date bound that is given
queryByFilters(uid, accountId, startDate, endDate) ==
    { i \in DOMAIN txs :
        /\ txs[i].userId = uid
        /\ txs[i].accountId = accountId
        /\ (startDate # NoDate => txs[i].createdAt >= startDate)
        /\ (endDate # NoDate => txs[i].createdAt <= endDate) }

\* orderBy('createdAt', 'desc'): documents of one createdAt come in descending
\* id order
RECURSIVE orderByCreatedAtDesc(_)
orderByCreatedAtDesc(ids) ==
    IF ids = {} THEN <<>>
    ELSE LET first == CHOOSE i \in ids : \A j \in ids :
                          \/ txs[j].createdAt < txs[i].createdAt
                          \/ txs[j].createdAt = txs[i].createdAt /\ j <= i
         IN  <<first>> \o orderByCreatedAtDesc(ids \ {first})

\* getTransactionsByAccount up to its await: the guard, the constraints, getDocs
getTransactionsByAccount(p, accountId, startDate, endDate) ==
    /\ calls[p].op = "idle"
    /\ calls' = [calls EXCEPT ![p] =
            LET c == [Idle EXCEPT !.op = "getTransactionsByAccount",
                                  !.account = accountId,
                                  !.startDate = startDate, !.endDate = endDate]
            IN  IF accountId = "" \/ currentUser = NoUser
                THEN [c EXCEPT !.pc = "done", !.result = AppError("INVALID_INPUT", 400)]
                ELSE [c EXCEPT !.pc = "rangeQuery", !.reader = currentUser]]
    /\ UNCHANGED <<accounts, txs, chains, nextTx, nextChain, currentUser,
                   categories, nextCat>>

\* await getDocs(q) and the conversion of the snapshot
rangeQuery(p, ok) ==
    /\ calls[p].op = "getTransactionsByAccount" /\ calls[p].pc = "rangeQuery"
    /\ IF ok
       THEN calls' = [calls EXCEPT ![p].pc = "done", ![p].result = Success,
                         ![p].rows = orderByCreatedAtDesc(
                                         queryByFilters(calls[p].reader, calls[p].account,
                                                        calls[p].startDate, calls[p].endDate))]
       ELSE FinishFault(p, AppError("INVALID_INPUT", 500))
    /\ UNCHANGED <<accounts, txs, chains, nextTx, nextChain, currentUser,
                   categories, nextCat>>

\* the inner loop of getSpendingByCategory over one account's transactions
RECURSIVE addSpending(_, _)
addSpending(categorySpending, transactions) ==
    IF transactions = <<>> THEN categorySpending
    ELSE LET t == txs[Head(transactions)]
             had == IF t.category \in DOMAIN categorySpending
                    THEN categorySpending[t.category] ELSE 0
         IN  addSpending(
                 IF t.type = "NEGATIVE" /\ t.category # "TRANSFER"
                 THEN [c \in DOMAIN categorySpending \cup {t.category} |->
                          IF c = t.category THEN had + t.amount ELSE categorySpending[c]]
                 ELSE categorySpending,
                 Tail(transactions))

\* a loop of getSpendingByCategory up to its await: the next account's
\* getTransactionsByAccount checks auth.currentUser and issues getDocs; its
\* AppError is caught and rewrapped by getSpendingByCategory
nextFetch(c, pc) ==
    IF currentUser = NoUser
    THEN [c EXCEPT !.pc = "done", !.result = AppError("INVALID_INPUT", 500)]
    ELSE [c EXCEPT !.pc = pc, !.reader = currentUser]

\* the outer loop of getSpendingByCategory, entered or continued
nextSpending(c) ==
    IF c.todo = <<>>
    THEN [c EXCEPT !.pc = "done", !.result = Success]
    ELSE nextFetch(c, "statsTransactionsQuery")

\* the balance loop of getAccountsByUser inside getSpendingByCategory; when it
\* ends the outer loop starts over the accounts returned
nextStatsBalance(c) ==
    IF c.todo = <<>>
    THEN nextSpending([c EXCEPT !.todo = c.loaded])
    ELSE nextFetch(c, "statsBalanceQuery")

\* getSpendingByCategory up to its first await, inside getAccountsByUser
getSpendingByCategory(p, userId, startDate, endDate) ==
    /\ calls[p].op = "idle"
    /\ calls' = [calls EXCEPT ![p] =
            [Idle EXCEPT !.op = "getSpendingByCategory", !.pc = "statsAccountsQuery",
                         !.userId = userId,
                         !.startDate = startDate, !.endDate = endDate]]
    /\ UNCHANGED <<accounts, txs, chains, nextTx, nextChain, currentUser,
                   categories, nextCat>>

\* await getDocs(q) of getAccountsByUser; its failure is caught and wrapped
statsAccountsQuery(p, ok) ==
    /\ calls[p].op = "getSpendingByCategory" /\ calls[p].pc = "statsAccountsQuery"
    /\ IF ok
       THEN calls' = [calls EXCEPT ![p] =
                nextStatsBalance([calls[p] EXCEPT
                    !.todo = activeAccounts(calls[p].userId),
                    !.loaded = activeAccounts(calls[p].userId)])]
       ELSE FinishFault(p, AppError("INVALID_INPUT", 500))
    /\ UNCHANGED <<accounts, txs, chains, nextTx, nextChain, currentUser,
                   categories, nextCat>>

\* await getDocs(q) of one balance fetch of getAccountsByUser
statsBalanceQuery(p, ok) ==
    /\ calls[p].op = "getSpendingByCategory" /\ calls[p].pc = "statsBalanceQuery"
    /\ IF ok
       THEN LET a == Head(calls[p].todo)
                b == reduceBalance(getTransactionQueryConstraints(calls[p].reader, a))
            IN  calls' = [calls EXCEPT ![p] =
                    nextStatsBalance([calls[p] EXCEPT
                        !.todo = Tail(@),
                        !.balance = [x \in DOMAIN @ \cup {a} |->
                                        IF x = a THEN b ELSE @[x]]])]
       ELSE FinishFault(p, AppError("INVALID_INPUT", 500))
    /\ UNCHANGED <<accounts, txs, chains, nextTx, nextChain, currentUser,
                   categories, nextCat>>

\* await getDocs(q) of one account's getTransactionsByAccount(id, startDate,
\* endDate), the inner loop, and the next turn of the outer loop
statsTransactionsQuery(p, ok) ==
    /\ calls[p].op = "getSpendingByCategory" /\ calls[p].pc = "statsTransactionsQuery"
    /\ IF ok
       THEN LET a == Head(calls[p].todo)
                transactions == orderByCreatedAtDesc(
                                    queryByFilters(calls[p].reader, a,
                                                   calls[p].startDate, calls[p].endDate))
            IN  calls' = [calls EXCEPT ![p] =
                    nextSpending([calls[p] EXCEPT
                        !.todo = Tail(@),
                        !.spending = addSpending(@, transactions)])]
       ELSE FinishFault(p, AppError("INVALID_INPUT", 500))
    /\ UNCHANGED <<accounts, txs, chains, nextTx, nextChain, currentUser,
                   categories, nextCat>>

-----------------------------------------------------------------------------
(* Steps of the calls in flight: a store request settles, well or not.     *)

TxIds == 1..MaxTxs

StepCreate(p) ==
    \E ok \in BOOLEAN :
       \/ createTransactionAddDoc(p, ok)
       \/ createTransactionGetDoc(p, ok)

StepChained(p) ==
    \E ok \in BOOLEAN :
       \/ legAddDoc(p, ok)
       \/ legGetDoc(p, ok)
       \/ chainAddDoc(p, ok)

StepUpdate(p) ==
    \E ok \in BOOLEAN :
       \/ updateGetDoc(p, ok)
       \/ updateDoc(p, ok)

StepDelete(p) ==
    \E ok \in BOOLEAN :
       \/ deleteGetDoc(p, ok)
       \/ deleteChainQuery(p, ok)
       \/ \E i \in calls[p].pending : deleteLeg(p, i, ok)
       \/ deleteRecordQuery(p, ok)
       \/ \E r \in calls[p].pending : deleteRecord(p, r, ok)
       \/ deleteDoc(p, ok)

StepAccounts(p) ==
    \E ok \in BOOLEAN :
       \/ accountsQuery(p, ok)
       \/ transactionsQuery(p, ok)

StepLookup(p) ==
    \E ok \in BOOLEAN : chainedQuery(p, ok)

StepById(p) ==
    \E ok \in BOOLEAN : byIdGetDoc(p, ok)

StepAccount(p) ==
    \E ok \in BOOLEAN :
       \/ duplicatesQuery(p, ok)
       \/ accountAddDoc(p, ok)
       \/ accountGetDoc(p, ok)
       \/ updateAccountGetDoc(p, ok)
       \/ updateAccountUpdateDoc(p, ok)
       \/ deleteAccountGetDoc(p, ok)
       \/ archiveUpdateDoc(p, ok)

StepCategory(p) ==
    \E ok \in BOOLEAN :
       \/ categoriesQuery(p, ok)
       \/ existingQuery(p, ok)
       \/ categoryAddDoc(p, ok)
       \/ categoryGetDoc(p, ok)
       \/ updateCategoryGetDoc(p, ok)
       \/ updateCategoryUpdateDoc(p, ok)
       \/ deleteCategoryGetDoc(p, ok)
       \/ categoryDeleteDoc(p, ok)

StepStats(p) ==
    \E ok \in BOOLEAN :
       \/ rangeQuery(p, ok)
       \/ statsAccountsQuery(p, ok)
       \/ statsBalanceQuery(p, ok)
       \/ statsTransactionsQuery(p, ok)

-----------------------------------------------------------------------------
(* Specifications.  In each the calls of one client run one after the      *)
(* other: a call begins when no call is in flight.  The store starts with  *)
(* the accounts and no transaction; a session may be signed in.            *)

\* the accounts picked in the form's two selects
FormFrom == {"a1"}
FormTo == {"a1", "a2", "a3"}

\* single drafts besides the transfers: a valid one, an invalid one, and one
\* that names a chain id drawn earlier
PlainDrafts ==
    { BaseDraft, [BaseDraft EXCEPT !.amount = 0] }
    \cup { [BaseDraft EXCEPT !.chainId = c] : c \in 1..(nextChain - 1) }

(* Spec: creation of transactions and transfers, balances and lookups.     *)

Begin(p) ==
    \/ AllIdle /\ \E u \in Users, d \in PlainDrafts : createTransaction(p, u, d)
    \/ AllIdle /\ \E l \in LegLists : createChainedTransactions(p, "u1", l)
    \/ AllIdle /\ \E from \in FormFrom, to \in FormTo, m \in FormAmounts,
                     d \in FormDescriptions : handleSubmit(p, from, to, m, d)
    \/ AllIdle /\ \E u \in Users : getAccountsByUser(p, u)
    \/ AllIdle /\ \E c \in 0..(nextChain - 1) : getChainedTransactions(p, c)

Next ==
    \E p \in SeqProcs :
       \/ Begin(p)
       \/ StepCreate(p)
       \/ StepChained(p)
       \/ StepAccounts(p)
       \/ StepLookup(p)
       \/ Return(p)

Spec == Init /\ [][Next]_vars

(* SpecDelete: transfers, single transactions and their deletion.          *)

BeginDelete(p) ==
    \/ AllIdle /\ \E u \in Users,
                     d \in PlainDrafts \ {[BaseDraft EXCEPT !.amount = 0]} :
                        createTransaction(p, u, d)
    \/ AllIdle /\ \E from \in FormFrom, to \in FormTo, m \in FormAmounts,
                     d \in FormDescriptions : handleSubmit(p, from, to, m, d)
    \/ AllIdle /\ \E i \in TxIds, u \in Users : deleteTransaction(p, i, u)

NextDelete ==
    \E p \in SeqProcs :
       \/ BeginDelete(p)
       \/ StepCreate(p)
       \/ StepChained(p)
       \/ StepDelete(p)
       \/ Return(p)

SpecDelete == Init /\ [][NextDelete]_vars

(* SpecUpdate: transactions, transfers and their update.                   *)

\* the drafts SpecUpdate creates single transactions from
UpdateDrafts == { BaseDraft, [BaseDraft EXCEPT !.category = "TRANSFER"] }

BeginUpdate(p) ==
    \/ AllIdle /\ \E d \in UpdateDrafts : createTransaction(p, "u1", d)
    \/ AllIdle /\ \E m \in FormAmounts, d \in FormDescriptions :
                     handleSubmit(p, "a1", "a2", m, d)
    \/ AllIdle /\ \E i \in TxIds, d \in Patches, u \in Users :
                     updateTransaction(p, i, d, u)

NextUpdate ==
    \E p \in SeqProcs :
       \/ BeginUpdate(p)
       \/ StepCreate(p)
       \/ StepChained(p)
       \/ StepUpdate(p)
       \/ Return(p)

SpecUpdate == Init /\ [][NextUpdate]_vars

(* SpecLookup: transactions and transfers of both users, and the lookups.  *)

BeginLookup(p) ==
    \/ AllIdle /\ \E u \in Users, d \in PlainDrafts \ {[BaseDraft EXCEPT !.amount = 0]} :
                        createTransaction(p, u, d)
    \/ AllIdle /\ \E from \in FormFrom, to \in FormTo, m \in FormAmounts,
                     d \in FormDescriptions : handleSubmit(p, from, to, m, d)
    \/ AllIdle /\ \E i \in TxIds, u \in Users : getTransactionById(p, i, u)
    \/ AllIdle /\ \E c \in 0..(nextChain - 1) : getChainedTransactions(p, c)

NextLookup ==
    \E p \in SeqProcs :
       \/ BeginLookup(p)
       \/ StepCreate(p)
       \/ StepChained(p)
       \/ StepById(p)
       \/ StepLookup(p)
       \/ Return(p)

SpecLookup == Init /\ [][NextLookup]_vars

(* SpecPayback: single transactions from valid and invalid drafts, and     *)
(* updates that patch the payback fields alone.                            *)

\* a draft that asks for payback with a due date
PaybackDraft ==
    [BaseDraft EXCEPT !.requiresPayback = TRUE,
                      !.paybackDetails = <<[dueDate |-> 2]>>]

\* drafts that each break one rule of validateTransaction
InvalidDrafts ==
    { [BaseDraft EXCEPT !.accountId = ""],
      [BaseDraft EXCEPT !.description = ""],
      [BaseDraft EXCEPT !.description = " "],
      [BaseDraft EXCEPT !.category = "  "],
      [BaseDraft EXCEPT !.amount = 0],
      [BaseDraft EXCEPT !.amount = 0 - 1],
      [BaseDraft EXCEPT !.amountType = "string"],
      [BaseDraft EXCEPT !.type = "OTHER"],
      [BaseDraft EXCEPT !.requiresPayback = TRUE],
      [BaseDraft EXCEPT !.requiresPayback = TRUE,
                        !.paybackDetails = <<[dueDate |-> NoDate]>>] }

\* patches of the payback fields alone; the last is the one
\* handlePaybackStatusUpdate sends
PaybackPatches ==
    { Patch([requiresPayback |-> TRUE], {}),
      Patch([paybackDetails |-> NoPayback], {}),
      Patch([paybackDetails |-> <<[dueDate |-> 2, status |-> "PAID",
                                   completedAt |-> ServerTime]>>], {}) }

BeginPayback(p) ==
    \/ AllIdle /\ \E d \in {BaseDraft, PaybackDraft} \cup InvalidDrafts :
                     createTransaction(p, "u1", d)
    \/ AllIdle /\ \E i \in TxIds, d \in PaybackPatches :
                     updateTransaction(p, i, d, "u1")

NextPayback ==
    \E p \in SeqProcs :
       \/ BeginPayback(p)
       \/ StepCreate(p)
       \/ StepUpdate(p)
       \/ Return(p)

SpecPayback == Init /\ [][NextPayback]_vars

(* SpecAccounts: accounts are created, renamed and archived, one call at a *)
(* time, with transactions on them and the account list read.              *)

\* CreateAccountDTO inputs: a name in use, the same in another case, the name
\* of the archived account, and no name
AccountDrafts ==
    { [name |-> n, color |-> "red"] : n \in {"Checking", "checking", "Old", ""} }

\* the accounts updateAccount / deleteAccount are called on; "zz" is no account
AccountTargets == {"a1", "a2", "n1", "zz"}

BeginAccounts(p) ==
    \/ AllIdle /\ \E d \in AccountDrafts : createAccount(p, "u1", d)
    \/ AllIdle /\ \E a \in AccountTargets :
                     updateAccount(p, a, [name |-> "Checking", color |-> "red"])
    \/ AllIdle /\ \E a \in AccountTargets, u \in Users : deleteAccount(p, a, u)
    \/ AllIdle /\ createTransaction(p, "u1", BaseDraft)
    \/ AllIdle /\ getAccountsByUser(p, "u1")

NextAccounts ==
    \E p \in SeqProcs :
       \/ BeginAccounts(p)
       \/ StepAccount(p)
       \/ StepCreate(p)
       \/ StepAccounts(p)
       \/ Return(p)

SpecAccounts == Init /\ [][NextAccounts]_vars

(* SpecAccountsRace: two clients create, rename and archive accounts, their *)
(* calls interleaved at every await.                                       *)

BeginRace(p) ==
    \/ createAccount(p, "u1", [name |-> "Travel", color |-> "red"])
    \/ updateAccount(p, "a2", [name |-> "Checking", color |-> "red"])
    \/ deleteAccount(p, "a1", "u1")

NextRace ==
    \E p \in Procs :
       \/ BeginRace(p)
       \/ StepAccount(p)
       \/ Return(p)

SpecAccountsRace == Init /\ [][NextRace]_vars

(* SpecCategories: categories are listed, created, renamed and deleted,    *)
(* one call at a time.                                                     *)

\* CreateCategoryDTO inputs: a free name, names that differ from the built-in
\* EXPENSE "Home" in case only, and the name of the built-in INCOME "Gifts"
CategoryDrafts ==
    { [name |-> n, type |-> t, icon |-> "star"] :
        n \in {"Pets", "home", "HOME", "Gifts"}, t \in {"EXPENSE", "INCOME"} }

\* the category ids updateCategory / deleteCategory are called on: stored
\* ones (or unknown ones, before they are created) and a built-in one
CategoryTargets == {"c1", "c2", "default-home"}

BeginCategories(p) ==
    \/ AllIdle /\ \E t \in {"EXPENSE", "INCOME", ""} : getCategoriesByType(p, t)
    \/ AllIdle /\ \E d \in CategoryDrafts, u \in Users : createCategory(p, d, u)
    \/ AllIdle /\ \E c \in CategoryTargets, n \in {"Home", "Pets"} :
                     updateCategory(p, c, [name |-> n, type |-> "", icon |-> ""], "u1")
    \/ AllIdle /\ \E c \in CategoryTargets : deleteCategory(p, c, "u1")

NextCategories ==
    \E p \in SeqProcs :
       \/ BeginCategories(p)
       \/ StepCategory(p)
       \/ Return(p)

SpecCategories == Init /\ [][NextCategories]_vars

(* SpecCategoriesRace: two clients create, rename and delete categories,   *)
(* their calls interleaved at every await.                                 *)

BeginCategoriesRace(p) ==
    \/ getCategoriesByType(p, "EXPENSE")
    \/ createCategory(p, [name |-> "Pets", type |-> "EXPENSE", icon |-> "star"], "u1")
    \/ updateCategory(p, "c1", [name |-> "Home", type |-> "", icon |-> ""], "u1")
    \/ deleteCategory(p, "c1", "u1")

NextCategoriesRace ==
    \E p \in Procs :
       \/ BeginCategoriesRace(p)
       \/ StepCategory(p)
       \/ Return(p)

SpecCategoriesRace == Init /\ [][NextCategoriesRace]_vars

(* SpecStats: dated transactions are recorded, then listed by account and  *)
(* aggregated by category, one call at a time.                             *)

\* drafts on Checking, on Savings and on the archived account, of both types,
\* one a transfer leg, with transaction dates 3, 5 and none (server time)
StatsDrafts ==
    { BaseDraft,
      [BaseDraft EXCEPT !.amount = 2, !.transactionDate = 3],
      [BaseDraft EXCEPT !.accountId = "a2", !.category = "RENT", !.transactionDate = 5],
      [BaseDraft EXCEPT !.type = "POSITIVE", !.transactionDate = 5],
      [BaseDraft EXCEPT !.category = "TRANSFER", !.transactionDate = 5],
      [BaseDraft EXCEPT !.accountId = "a4", !.transactionDate = 5] }

BeginStats(p) ==
    \/ AllIdle /\ \E d \in StatsDrafts : createTransaction(p, "u1", d)
    \/ AllIdle /\ \E a \in {"a1", "a4", ""}, s \in {NoDate, 5}, e \in {NoDate, 5} :
                     getTransactionsByAccount(p, a, s, e)
    \/ AllIdle /\ \E s \in {3, 5}, e \in {5, ServerTime} :
                     getSpendingByCategory(p, "u1", s, e)

NextStats ==
    \E p \in SeqProcs :
       \/ BeginStats(p)
       \/ StepCreate(p)
       \/ StepStats(p)
       \/ Return(p)

SpecStats == Init /\ [][NextStats]_vars

(* SpecChainRace: two clients of one signed-in user submit transfers from   *)
(* Checking to Savings, delete transactions and load the balances, their    *)
(* calls interleaved at every await; no store request fails. Every stored   *)
(* transaction is a transfer leg, so deleteTransaction's single-document    *)
(* path is never taken.                                                     *)

BeginChainRace(p) ==
    \/ handleSubmit(p, "a1", "a2", 2, "move")
    \/ \E i \in TxIds : deleteTransaction(p, i, currentUser)
    \/ getAccountsByUser(p, currentUser)

NextChainRace ==
    \E p \in Procs :
       \/ BeginChainRace(p)
       \/ legAddDoc(p, TRUE)
       \/ legGetDoc(p, TRUE)
       \/ chainAddDoc(p, TRUE)
       \/ deleteGetDoc(p, TRUE)
       \/ deleteChainQuery(p, TRUE)
       \/ \E i \in calls[p].pending : deleteLeg(p, i, TRUE)
       \/ deleteRecordQuery(p, TRUE)
       \/ \E r \in calls[p].pending : deleteRecord(p, r, TRUE)
       \/ accountsQuery(p, TRUE)
       \/ transactionsQuery(p, TRUE)
       \/ Return(p)

SpecChainRace == Init /\ [][NextChainRace]_vars

-----------------------------------------------------------------------------
(* Properties.                                                             *)

\* a call of operation op that has settled
Settled(p, op) == calls[p].op = op /\ calls[p].pc = "done"

\* the ledger sum of a set of transaction documents
RECURSIVE LedgerSum(_)
LedgerSum(ids) ==
    IF ids = {} THEN 0
    ELSE LET i == CHOOSE x \in ids : TRUE
         IN  (IF txs[i].type = "POSITIVE" THEN txs[i].amount ELSE 0 - txs[i].amount)
             + LedgerSum(ids \ {i})

\* the leg list of a transfer of m from x to y, as the transfer form submits it
IsTransfer(legs) ==
    /\ Len(legs) = 2
    /\ legs[1].type = "NEGATIVE" /\ legs[2].type = "POSITIVE"
    /\ legs[1].category = "TRANSFER" /\ legs[2].category = "TRANSFER"
    /\ legs[1].amount = legs[2].amount /\ legs[1].amount > 0
    /\ legs[1].accountId # legs[2].accountId

\* a transfer submitted through the form has succeeded
TransferDone(p) ==
    /\ Settled(p, "createChainedTransactions")
    /\ calls[p].result = Success
    /\ IsTransfer(calls[p].legs)

\* C1: every balance a successful getAccountsByUser(owner) returns for a
\* non-archived account A is the signed sum of every stored transaction with
\* accountId = A, whoever its userId is.
C1_BalanceSumsEveryTransactionOfAccount ==
    \A p \in Procs :
        (Settled(p, "getAccountsByUser") /\ calls[p].result = Success) =>
            \A a \in DOMAIN calls[p].balance :
                calls[p].balance[a]
                    = LedgerSum({ i \in DOMAIN txs : txs[i].accountId = a })

\* C2: when a transfer of M from X to Y has succeeded, the call has written
\* exactly two transactions, they are the only ones with the call's chain id,
\* the first is NEGATIVE M on X and the second POSITIVE M on Y, both of category
\* TRANSFER, and exactly one chain record has that chain id; it lists the two
\* ids and its status is COMPLETED.
C2_TransferWritesTwoLegsAndOneRecord ==
    \A p \in Procs :
        TransferDone(p) =>
            LET c == calls[p]
                ids == c.createdTransactions
                members == { i \in DOMAIN txs : txs[i].chainId = c.chainId }
                records == { r \in DOMAIN chains : chains[r].chainId = c.chainId }
            IN  /\ Len(ids) = 2 /\ ids[1] # ids[2]
                /\ c.written = ids
                /\ c.chainId # NoChain
                /\ members = {ids[1], ids[2]}
                /\ txs[ids[1]].accountId = c.legs[1].accountId
                /\ txs[ids[1]].type = "NEGATIVE"
                /\ txs[ids[1]].amount = c.legs[1].amount
                /\ txs[ids[1]].category = "TRANSFER"
                /\ txs[ids[2]].accountId = c.legs[2].accountId
                /\ txs[ids[2]].type = "POSITIVE"
                /\ txs[ids[2]].amount = c.legs[1].amount
                /\ txs[ids[2]].category = "TRANSFER"
                /\ Cardinality(records) = 1
                /\ \A r \in records :
                      /\ chains[r].transactionIds = ids
                      /\ chains[r].status = "COMPLETED"

C2_Witness ==
    \E p \in Procs :
        /\ TransferDone(p)
        /\ calls[p].chainId = 2
        /\ Cardinality(DOMAIN txs) = 3

\* C3: when a transfer of M from X to Y has succeeded, getAccountsByUser
\* reports for X the balance it reported before the transfer less M, for Y that
\* balance plus M and for every other account the balance of before, and
\* getChainedTransactions of the chain id returns exactly the two legs; a
\* successful getAccountsByUser returns these reported balances and a
\* successful getChainedTransactions the transactions with the chain id.
C3_TransferMovesBalance ==
    /\ \A p \in Procs :
        TransferDone(p) =>
            LET c == calls[p]
                x == c.legs[1].accountId
                y == c.legs[2].accountId
                m == c.legs[1].amount
                after == reportedBalances(c.userId, currentUser)
            IN  /\ DOMAIN after = DOMAIN c.before
                /\ {x, y} \subseteq DOMAIN after
                /\ \A a \in DOMAIN after :
                      after[a] = c.before[a]
                                 + (IF a = x THEN 0 - m ELSE IF a = y THEN m ELSE 0)
                /\ chainQuery(c.chainId) = Range(c.createdTransactions)
                /\ Cardinality(chainQuery(c.chainId)) = 2
    /\ \A p \in Procs :
        (Settled(p, "getAccountsByUser") /\ calls[p].result = Success) =>
            calls[p].balance = reportedBalances(calls[p].userId, currentUser)
    /\ \A p \in Procs :
        (Settled(p, "getChainedTransactions") /\ calls[p].result = Success) =>
            calls[p].found = { i \in DOMAIN txs : txs[i].chainId = calls[p].chainId }

C3_Witness ==
    \E p \in Procs :
        /\ TransferDone(p)
        /\ \E a \in DOMAIN calls[p].before : calls[p].before[a] # 0
        /\ reportedBalances(calls[p].userId, currentUser)["a1"] = 0 - 3

\* C4: a deleteTransaction that succeeds on a transaction with a chain id
\* leaves no transaction and no chain record with that chain id; one that
\* succeeds on a transaction without chain id removes that document alone:
\* every other transaction and every chain record is as before.
C4_DeleteCascadesOverChain ==
    [][\A p \in Procs :
        (/\ calls[p].op = "deleteTransaction"
         /\ calls[p].pc # "done"
         /\ calls'[p].pc = "done"
         /\ calls'[p].result = Success) =>
            IF calls'[p].chainId # NoChain
            THEN /\ \A i \in DOMAIN txs' : txs'[i].chainId # calls'[p].chainId
                 /\ \A r \in DOMAIN chains' : chains'[r].chainId # calls'[p].chainId
            ELSE /\ calls[p].target \in DOMAIN txs
                 /\ txs[calls[p].target].chainId = NoChain
                 /\ DOMAIN txs' = DOMAIN txs \ {calls[p].target}
                 /\ \A i \in DOMAIN txs' : txs'[i] = txs[i]
                 /\ chains' = chains
      ]_vars

C4_Witness ==
    \E p \in Procs :
        /\ Settled(p, "deleteTransaction")
        /\ calls[p].result = Success
        /\ calls[p].chainId # NoChain
        /\ nextTx = MaxTxs + 1
        /\ Cardinality(DOMAIN txs) = 1
        /\ nextChain = 2
        /\ DOMAIN chains = {}

\* C5: createChainedTransactions writes leg k+1 only after leg k was written
\* and read back: at most one written leg is not yet among the created ones,
\* the documents are written in the order of the input legs, and a chain record
\* of the call exists only once every leg is created; it lists the created ids
\* in the order of the input legs.
C5_LegsInOrderThenRecord ==
    \A p \in Procs :
        (calls[p].op = "createChainedTransactions" /\ calls[p].legs # <<>>) =>
            LET c == calls[p]
                n == Len(c.createdTransactions)
                w == c.written
            IN  /\ n <= Len(w) /\ Len(w) <= n + 1
                /\ Len(w) <= Len(c.legs)
                /\ \A k \in 1..n : c.createdTransactions[k] = w[k]
                /\ \A k \in 1..Len(w) :
                      /\ w[k] \in DOMAIN txs
                      /\ txs[w[k]].accountId = c.legs[k].accountId
                      /\ txs[w[k]].type = c.legs[k].type
                      /\ txs[w[k]].description = c.legs[k].description
                      /\ txs[w[k]].chainId = c.chainId
                /\ \A j, k \in 1..Len(w) : j < k => w[j] < w[k]
                /\ { i \in DOMAIN txs : txs[i].chainId = c.chainId } = Range(w)
                /\ \A r \in DOMAIN chains :
                      chains[r].chainId = c.chainId =>
                          /\ n = Len(c.legs)
                          /\ chains[r].transactionIds = c.createdTransactions
                          /\ c.pc = "done"

C5_Witness ==
    \E p \in Procs :
        /\ calls[p].op = "createChainedTransactions"
        /\ calls[p].pc = "legAddDoc"
        /\ Len(calls[p].createdTransactions) = 1
        /\ Len(calls[p].legs) = 2

\* C6: when createChainedTransactions has failed after writing at least one
\* leg, the call has ended in an error, every leg it wrote is still stored with
\* the call's chain id, and no chain record has that chain id.
C6_FailedChainLeavesOrphans ==
    \A p \in Procs :
        (/\ Settled(p, "createChainedTransactions")
         /\ calls[p].result # Success
         /\ Len(calls[p].written) >= 1) =>
            /\ calls[p].result = [kind |-> "INVALID_INPUT", status |-> 500]
            /\ \A k \in 1..Len(calls[p].written) :
                  /\ calls[p].written[k] \in DOMAIN txs
                  /\ txs[calls[p].written[k]].chainId = calls[p].chainId
            /\ \A r \in DOMAIN chains : chains[r].chainId # calls[p].chainId

C6_Witness ==
    \E p \in Procs :
        /\ Settled(p, "createChainedTransactions")
        /\ calls[p].result # Success
        /\ Len(calls[p].written) = 2
        /\ Len(calls[p].createdTransactions) = 2

\* C7: whenever no call is in flight (every call has returned or failed),
\* every id in the transactionIds of a chain record refers to a stored
\* transaction whose chainId is the record's chainId.
C7_RecordMembersExist ==
    (\A p \in Procs : calls[p].pc \in {"idle", "done"}) =>
        \A r \in DOMAIN chains :
            \A k \in 1..Len(chains[r].transactionIds) :
                /\ chains[r].transactionIds[k] \in DOMAIN txs
                /\ txs[chains[r].transactionIds[k]].chainId = chains[r].chainId

\* C8: every stored transaction of category TRANSFER has a chain id.
C8_TransferHasChainId ==
    \A i \in DOMAIN txs :
        txs[i].category = "TRANSFER" => txs[i].chainId # NoChain

\* the keys of a patch that carry a value
Patched(data) == DOMAIN data.vals \ data.undef

\* field k of document doc holds what the patch gives for k
Holds(doc, data, k) ==
    IF k # "paybackDetails" THEN doc[k] = data.vals[k]
    ELSE IF data.vals[k] = <<>> THEN doc[k] = <<>>
    ELSE /\ Len(doc[k]) = 1
         /\ doc[k][1].dueDate = data.vals[k][1].dueDate
         /\ doc[k][1].completedAt = data.vals[k][1].completedAt
         /\ doc[k][1].status = (IF data.vals[k][1].status = "" THEN "PENDING"
                                ELSE data.vals[k][1].status)

\* C9: a successful updateTransaction on a stored transaction of category
\* TRANSFER leaves its type, category and amount as they were and stores every
\* other field of the patch; on a transaction of another category it stores
\* every field of the patch, type, category and amount included.  Fields the
\* patch does not carry (but updatedAt) and all other documents stay as they
\* were.
C9_TransferFieldsLocked ==
    [][\A p \in Procs :
        (/\ calls[p].op = "updateTransaction"
         /\ calls[p].pc = "updateDoc"
         /\ calls'[p].pc = "done"
         /\ calls'[p].result = Success) =>
            LET id == calls[p].target
                data == calls[p].patch
                locked == {"type", "category", "amount"}
            IN  /\ id \in DOMAIN txs /\ DOMAIN txs' = DOMAIN txs
                /\ \A i \in DOMAIN txs \ {id} : txs'[i] = txs[i]
                /\ chains' = chains
                /\ IF txs[id].category = "TRANSFER"
                   THEN /\ \A k \in locked : txs'[id][k] = txs[id][k]
                        /\ \A k \in Patched(data) \ locked : Holds(txs'[id], data, k)
                   ELSE \A k \in Patched(data) : Holds(txs'[id], data, k)
                /\ \A k \in DOMAIN txs[id] \ (Patched(data) \cup {"updatedAt"}) :
                      txs'[id][k] = txs[id][k]
      ]_vars

C9_Witness ==
    \E p \in Procs :
        /\ Settled(p, "updateTransaction")
        /\ calls[p].result = Success
        /\ "amount" \in Patched(calls[p].patch)
        /\ calls[p].target \in DOMAIN txs
        /\ txs[calls[p].target].category = "TRANSFER"
        /\ txs[calls[p].target].chainId # NoChain
        /\ txs[calls[p].target].description = "edited"
        /\ txs[calls[p].target].amount # calls[p].patch.vals.amount

\* C10: when the getDoc of updateTransaction(id, patch, owner) has answered,
\* the call fails with TRANSACTION_NOT_FOUND (404) if no transaction has the
\* id, and with UNAUTHORIZED (403) if the stored userId is not owner; the call
\* has then ended, and neither it nor the call's begin has changed a document.
C10_UpdateNotFoundUnauthorized ==
    [][\A p \in Procs :
        /\ (calls'[p].op = "updateTransaction" /\ calls[p].op = "idle") =>
              (txs' = txs /\ chains' = chains /\ accounts' = accounts)
        /\ (/\ calls[p].op = "updateTransaction"
            /\ calls[p].pc = "getDoc"
            /\ calls'[p] # calls[p]
            /\ ~calls'[p].fault) =>
              LET id == calls[p].target
              IN  /\ id \notin DOMAIN txs =>
                        /\ calls'[p].pc = "done"
                        /\ calls'[p].result
                              = [kind |-> "TRANSACTION_NOT_FOUND", status |-> 404]
                  /\ (id \in DOMAIN txs /\ txs[id].userId # calls[p].userId) =>
                        /\ calls'[p].pc = "done"
                        /\ calls'[p].result
                              = [kind |-> "UNAUTHORIZED", status |-> 403]
                  /\ txs' = txs /\ chains' = chains /\ accounts' = accounts
      ]_vars

C10_Witness ==
    \E p \in Procs :
        /\ Settled(p, "updateTransaction")
        /\ calls[p].result = [kind |-> "UNAUTHORIZED", status |-> 403]
        /\ calls[p].target \in DOMAIN txs
        /\ txs[calls[p].target].userId # calls[p].userId


\* C11: when the getDoc of deleteTransaction(id, owner) has answered, the call
\* fails with TRANSACTION_NOT_FOUND (404) if no transaction has the id and with
\* UNAUTHORIZED (403) if the stored userId is not owner, the errors
\* updateTransaction reports, and nothing is deleted.
C11_DeleteNotFoundUnauthorized ==
    [][\A p \in Procs :
        (/\ calls[p].op = "deleteTransaction"
         /\ calls[p].pc = "getDoc"
         /\ calls'[p] # calls[p]
         /\ ~calls'[p].fault) =>
            LET id == calls[p].target
            IN  /\ id \notin DOMAIN txs =>
                      /\ calls'[p].pc = "done"
                      /\ calls'[p].result
                            = [kind |-> "TRANSACTION_NOT_FOUND", status |-> 404]
                /\ (id \in DOMAIN txs /\ txs[id].userId # calls[p].userId) =>
                      /\ calls'[p].pc = "done"
                      /\ calls'[p].result
                            = [kind |-> "UNAUTHORIZED", status |-> 403]
                /\ txs' = txs /\ chains' = chains /\ accounts' = accounts
      ]_vars


\* C12: a getTransactionById(id, owner) that succeeds returns a transaction
\* whose userId is owner, and on a stored transaction of another user it fails
\* with UNAUTHORIZED (403); a getChainedTransactions that succeeds returns no
\* transaction whose userId differs from the signed-in user.
C12_LookupsCheckOwner ==
    \A p \in Procs :
        /\ (Settled(p, "getTransactionById") /\ calls[p].result = Success) =>
              \A i \in calls[p].found : txs[i].userId = calls[p].userId
        /\ (/\ Settled(p, "getTransactionById")
            /\ ~calls[p].fault
            /\ calls[p].target \in DOMAIN txs
            /\ txs[calls[p].target].userId # calls[p].userId) =>
              calls[p].result = [kind |-> "UNAUTHORIZED", status |-> 403]
        /\ (Settled(p, "getChainedTransactions") /\ calls[p].result = Success) =>
              \A i \in calls[p].found : txs[i].userId = currentUser


\* a draft the claim says is rejected: no account id, an empty or blank
\* description or category, an amount that is no number or not positive, a type
\* that is neither POSITIVE nor NEGATIVE, or payback without a due date
Rejectable(d) ==
    \/ d.accountId = ""
    \/ d.description \in {"", " ", "  "}
    \/ d.category \in {"", " ", "  "}
    \/ d.amountType # "number" \/ d.amount <= 0
    \/ d.type \notin {"POSITIVE", "NEGATIVE"}
    \/ (d.requiresPayback /\ (d.paybackDetails = <<>>
                              \/ d.paybackDetails[1].dueDate = NoDate))

\* a draft whose one fault is payback without a due date
PaybackFault(d) ==
    /\ d.requiresPayback
    /\ (d.paybackDetails = <<>> \/ d.paybackDetails[1].dueDate = NoDate)
    /\ ~Rejectable([d EXCEPT !.requiresPayback = FALSE, !.paybackDetails = <<>>])

C14_PaybackHasDueDate ==
    \A i \in DOMAIN txs :
        txs[i].requiresPayback =>
            /\ txs[i].paybackDetails # <<>>
            /\ txs[i].paybackDetails[1].dueDate # NoDate


\* C15: when the duplicates query of createAccount(owner, data) has answered,
\* the call fails with ACCOUNT_EXISTS (400) and changes no account if owner has
\* a non-archived account of exactly that name, and goes on to write the
\* account otherwise (also when an archived account or an account whose name
\* differs in case has the name); the addDoc that succeeds adds one
\* non-archived account of that owner and name, and a call that no store
\* failure hit ends in success or in ACCOUNT_EXISTS.
C15_DuplicateNameRejected ==
    [][\A p \in Procs :
        LET c == calls[p]
            same == { a \in DOMAIN accounts :
                        /\ accounts[a].userId = c.userId
                        /\ accounts[a].name = c.data.name
                        /\ accounts[a].isArchived = FALSE }
        IN  /\ (/\ c.op = "createAccount" /\ c.pc = "duplicatesQuery"
                /\ calls'[p] # c /\ ~calls'[p].fault) =>
                  /\ accounts' = accounts
                  /\ IF same # {}
                     THEN /\ calls'[p].pc = "done"
                          /\ calls'[p].result
                                = [kind |-> "ACCOUNT_EXISTS", status |-> 400]
                     ELSE calls'[p].pc = "accountAddDoc"
            /\ (/\ c.op = "createAccount" /\ c.pc = "accountAddDoc"
                /\ calls'[p] # c /\ ~calls'[p].fault) =>
                  \E n \in DOMAIN accounts' \ DOMAIN accounts :
                      /\ DOMAIN accounts' = DOMAIN accounts \cup {n}
                      /\ \A a \in DOMAIN accounts : accounts'[a] = accounts[a]
                      /\ accounts'[n].userId = c.userId
                      /\ accounts'[n].name = c.data.name
                      /\ accounts'[n].isArchived = FALSE
            /\ (/\ c.op = "createAccount" /\ c.pc = "accountGetDoc"
                /\ calls'[p] # c /\ ~calls'[p].fault) =>
                  /\ calls'[p].pc = "done" /\ calls'[p].result = Success
      ]_vars

C15_Witness ==
    \E p \in Procs :
        /\ Settled(p, "createAccount")
        /\ calls[p].result = Success
        /\ calls[p].data.name = "Checking"
        /\ accounts["a1"].name = "Checking" /\ accounts["a1"].isArchived
        /\ \E n \in DOMAIN accounts :
              /\ accounts[n].name = "checking"
              /\ accounts[n].userId = "u1"
              /\ ~accounts[n].isArchived


\* C16: no owner has two non-archived accounts of the same name.
C16_ActiveNamesUnique ==
    \A a, b \in DOMAIN accounts :
        (/\ a # b
         /\ accounts[a].userId = accounts[b].userId
         /\ ~accounts[a].isArchived /\ ~accounts[b].isArchived) =>
            accounts[a].name # accounts[b].name


\* C17: no step of a deleteAccount call removes an account or changes a
\* transaction or another account; the step that ends it in success sets
\* isArchived and updatedAt of the target and nothing else, every other step of
\* the call changes no account; when its getDoc has answered, a missing
\* account ends it with ACCOUNT_NOT_FOUND (404) and another owner's account
\* with UNAUTHORIZED (403).  An archived account stays archived, and a
\* successful getAccountsByUser returns no archived account.
C17_DeleteAccountArchivesOnly ==
    [][/\ \A p \in Procs :
            (calls[p].op = "deleteAccount" /\ calls'[p] # calls[p]) =>
                LET id == calls[p].account
                IN  /\ DOMAIN accounts' = DOMAIN accounts
                    /\ txs' = txs /\ chains' = chains
                    /\ \A a \in DOMAIN accounts \ {id} : accounts'[a] = accounts[a]
                    /\ IF calls'[p].pc = "done" /\ calls'[p].result = Success
                       THEN /\ id \in DOMAIN accounts
                            /\ accounts'[id].isArchived = TRUE
                            /\ accounts'[id].updatedAt = ServerTime
                            /\ accounts'[id].name = accounts[id].name
                            /\ accounts'[id].color = accounts[id].color
                            /\ accounts'[id].userId = accounts[id].userId
                       ELSE accounts' = accounts
                    /\ (calls[p].pc = "accountDoc" /\ ~calls'[p].fault) =>
                          /\ id \notin DOMAIN accounts =>
                                calls'[p].result
                                   = [kind |-> "ACCOUNT_NOT_FOUND", status |-> 404]
                          /\ (id \in DOMAIN accounts
                              /\ accounts[id].userId # calls[p].userId) =>
                                calls'[p].result
                                   = [kind |-> "UNAUTHORIZED", status |-> 403]
       /\ \A a \in DOMAIN accounts :
            accounts[a].isArchived =>
                (a \in DOMAIN accounts' /\ accounts'[a].isArchived)
       /\ \A p \in Procs :
            (/\ calls'[p].op = "getAccountsByUser" /\ calls'[p].pc = "done"
             /\ calls'[p].result = Success) =>
                \A a \in DOMAIN calls'[p].balance :
                    a \in DOMAIN accounts' /\ ~accounts'[a].isArchived
      ]_vars

C17_Witness ==
    \E p \in Procs :
        /\ Settled(p, "getAccountsByUser")
        /\ calls[p].result = Success
        /\ accounts["a1"].isArchived
        /\ accounts["a1"].updatedAt = ServerTime
        /\ "a1" \notin DOMAIN calls[p].balance
        /\ "a2" \in DOMAIN calls[p].balance
        /\ \E i \in DOMAIN txs : txs[i].accountId = "a1"


\* C18: a settled successful getCategoriesByType(t) lists exactly the built-in
\* categories of type t followed by the stored custom categories of type t,
\* every entry once, and each of the two groups is ordered by
\* case-insensitive name.
C18_ListedBuiltInsThenCustoms ==
    \A p \in SeqProcs :
        (calls[p].op = "getCategoriesByType" /\ calls[p].pc = "done"
            /\ calls[p].result = Success) =>
        LET L == calls[p].listed
            t == calls[p].categoryData.type
            ListedIds(ks) == { L[k].id : k \in ks }
            OrderedByName(ks) ==
                \A i \in ks, j \in ks :
                    i < j => letterRank(L[i].name) <= letterRank(L[j].name)
            builtIns == { k \in 1..Len(defaultCategories) : defaultCategories[k].type = t }
            stored == { i \in DOMAIN categories : categories[i].type = t }
            n == Cardinality(builtIns)
        IN  /\ Len(L) = n + Cardinality(stored)
            /\ \A k \in 1..n : ~L[k].isCustom /\ L[k].type = t
            /\ ListedIds(1..n) = { defaultCategories[k].id : k \in builtIns }
            /\ \A k \in (n + 1)..Len(L) :
                   /\ L[k].isCustom /\ L[k].type = t
                   /\ L[k].name = categories[L[k].id].name
            /\ ListedIds((n + 1)..Len(L)) = stored
            /\ OrderedByName(1..n)
            /\ OrderedByName((n + 1)..Len(L))

\* a listing of EXPENSE categories in which a custom category created later
\* comes before one created earlier, after all eight built-ins
C18_Witness ==
    \E p \in SeqProcs :
        /\ calls[p].op = "getCategoriesByType" /\ calls[p].pc = "done"
        /\ calls[p].result = Success
        /\ calls[p].categoryData.type = "EXPENSE"
        /\ Len(calls[p].listed) = 10
        /\ calls[p].listed[9].id = "c2"
        /\ calls[p].listed[10].id = "c1"
        /\ toLowerCase(calls[p].listed[9].name) # toLowerCase(calls[p].listed[10].name)


\* C19: createCategory, once its listing of the type has arrived, ends in an
\* error and writes nothing if the name equals, ignoring case, the name of a
\* built-in or stored category of the same type, and goes on to write the
\* category otherwise (also when a category of another type has the name); no
\* step before the addDoc changes the stored categories, and the addDoc that
\* succeeds stores exactly one new category of that name and type with
\* isCustom = true and the caller's user id.
C19_CreateCategoryRejectsCollision ==
    [][\A p \in Procs :
        LET c == calls[p]
            NamesOfType(type) ==
                { defaultCategories[k].name :
                    k \in { j \in 1..Len(defaultCategories) :
                              defaultCategories[j].type = type } }
                \cup { categories[i].name :
                         i \in { j \in DOMAIN categories : categories[j].type = type } }
            collides == \E n \in NamesOfType(c.categoryData.type) :
                            toLowerCase(n) = toLowerCase(c.categoryData.name)
        IN  /\ (/\ c.op = "createCategory" /\ c.pc = "existingQuery"
                /\ calls'[p] # c /\ ~calls'[p].fault) =>
                  /\ categories' = categories
                  /\ IF collides
                     THEN /\ calls'[p].pc = "done"
                          /\ calls'[p].result # Success
                     ELSE calls'[p].pc = "categoryAddDoc"
            /\ (/\ c.op = "createCategory" /\ c.pc = "categoryAddDoc"
                /\ calls'[p] # c /\ ~calls'[p].fault) =>
                  \E n \in DOMAIN categories' \ DOMAIN categories :
                      /\ DOMAIN categories' = DOMAIN categories \cup {n}
                      /\ \A i \in DOMAIN categories : categories'[i] = categories[i]
                      /\ categories'[n].name = c.categoryData.name
                      /\ categories'[n].type = c.categoryData.type
                      /\ categories'[n].isCustom = TRUE
                      /\ categories'[n].userId = c.userId
            /\ (/\ c.op = "createCategory" /\ c.pc # "categoryAddDoc"
                /\ calls'[p] # c) =>
                  categories' = categories
      ]_vars

\* a name that a built-in category of another type has was accepted, and a
\* name that differs only in case from a stored category of its type is
\* rejected
C19_Witness ==
    \E p \in Procs :
        /\ calls[p].op = "createCategory" /\ calls[p].pc = "done"
        /\ calls[p].result = AppError("INVALID_INPUT", 400)
        /\ calls[p].categoryData.type # ""
        /\ \E i \in DOMAIN categories :
              /\ categories[i].type = calls[p].categoryData.type
              /\ categories[i].name # calls[p].categoryData.name
              /\ toLowerCase(categories[i].name) = toLowerCase(calls[p].categoryData.name)
        /\ \E i \in DOMAIN categories :
              /\ categories[i].name = "Gifts" /\ categories[i].type = "EXPENSE"
              /\ categories[i].isCustom /\ categories[i].userId \in Users


\* C20: in every reachable state, for every user and type, no two of the
\* built-in categories of the type and the user's own custom categories of the
\* type have the same name.
C20_NamesUniqueInScope ==
    LET InScope(type, userId) ==
            { defaultCategories[k].id :
                k \in { j \in 1..Len(defaultCategories) :
                          defaultCategories[j].type = type } }
            \cup { i \in DOMAIN categories :
                     categories[i].type = type /\ categories[i].userId = userId }
        NameOf(id) ==
            IF id \in DOMAIN categories THEN categories[id].name
            ELSE LET k == CHOOSE j \in 1..Len(defaultCategories) :
                              defaultCategories[j].id = id
                 IN  defaultCategories[k].name
    IN  \A u \in Users, t \in {"EXPENSE", "INCOME", "SELFTRANSFER"} :
            \A i \in InScope(t, u), j \in InScope(t, u) :
                i # j => NameOf(i) # NameOf(j)

\* C21: updateCategory and deleteCategory, once their getDoc has answered,
\* end with status 404 when the id is a built-in or unknown one, end with
\* UNAUTHORIZED (403) when the stored category belongs to another user, and go
\* on to their write only for a stored custom category of the caller; the
\* checks change no category, and a write of these calls changes or removes
\* only the custom category of the caller that the call names.
C21_OnlyOwnCustomCategoryChanged ==
    [][\A p \in Procs :
        LET c == calls[p]
            mine == /\ c.category \in DOMAIN categories
                    /\ categories[c.category].isCustom
                    /\ categories[c.category].userId = c.userId
        IN  (c.op \in {"updateCategory", "deleteCategory"} /\ calls'[p] # c) =>
              /\ (c.pc = "categoryDoc" /\ ~calls'[p].fault) =>
                    /\ categories' = categories
                    /\ IF c.category \notin DOMAIN categories
                       THEN calls'[p].pc = "done" /\ calls'[p].result.status = 404
                       ELSE IF ~mine
                       THEN /\ calls'[p].pc = "done"
                            /\ calls'[p].result = [kind |-> "UNAUTHORIZED", status |-> 403]
                       ELSE calls'[p].pc \in {"categoryUpdateDoc", "categoryDeleteDoc"}
              /\ categories' # categories =>
                    /\ mine
                    /\ \A i \in DOMAIN categories \ {c.category} :
                          i \in DOMAIN categories' /\ categories'[i] = categories[i]
                    /\ DOMAIN categories' \subseteq DOMAIN categories
              /\ (calls'[p].pc = "done" /\ calls'[p].result # Success) =>
                    categories' = categories
      ]_vars

\* a call on another user's custom category has ended UNAUTHORIZED, the
\* category still stored
C21_Witness ==
    \E p \in Procs :
        /\ calls[p].op \in {"updateCategory", "deleteCategory"}
        /\ calls[p].pc = "done"
        /\ calls[p].result = [kind |-> "UNAUTHORIZED", status |-> 403]
        /\ calls[p].category \in DOMAIN categories
        /\ categories[calls[p].category].userId # calls[p].userId


\* C22: a getSpendingByCategory(owner, start, end) that succeeds with the
\* owner signed in returns, for
\* each category label, the sum of the amounts of the NEGATIVE, non-TRANSFER
\* transactions of that category in [start, end] on the accounts the owner
\* owns, archived or not, and has no entry for a label without such a
\* transaction.
C22_SpendingOverAllOwnedAccounts ==
    \A p \in SeqProcs :
        (calls[p].op = "getSpendingByCategory" /\ calls[p].pc = "done"
            /\ calls[p].result = Success /\ currentUser = calls[p].userId) =>
        LET c == calls[p]
            counted == { i \in DOMAIN txs :
                           /\ txs[i].accountId \in DOMAIN accounts
                           /\ accounts[txs[i].accountId].userId = c.userId
                           /\ txs[i].createdAt >= c.startDate
                           /\ txs[i].createdAt <= c.endDate
                           /\ txs[i].type = "NEGATIVE"
                           /\ txs[i].category # "TRANSFER" }
            labels == { txs[i].category : i \in counted }
            sum[S \in SUBSET counted] ==
                IF S = {} THEN 0
                ELSE LET i == CHOOSE x \in S : TRUE
                     IN  txs[i].amount + sum[S \ {i}]
        IN  /\ DOMAIN c.spending = labels
            /\ \A l \in labels :
                  c.spending[l] = sum[{ i \in counted : txs[i].category = l }]


C24_LegValidationErrorReachesCaller ==
    \A p \in Procs :
        LET c == calls[p]
            invalid == { k \in 1..Len(c.legs) :
                           validateTransaction(legData(c, k)) # Success }
        IN  (/\ c.op = "createChainedTransactions" /\ c.pc = "done"
             /\ ~c.fault /\ invalid # {}) =>
                LET k == CHOOSE x \in invalid : \A y \in invalid : x <= y
                IN  /\ c.result = validateTransaction(legData(c, k))
                    /\ c.result.status = 400


\* C25: a call that a failed store request ended has an AppError of the
\* INVALID_INPUT class with an HTTP status as its outcome, never the raw error
\* of the storage client.
C25_StoreFailureWrapped ==
    \A p \in Procs :
        (calls[p].pc = "done" /\ calls[p].fault) =>
            /\ calls[p].result # RawStoreError
            /\ calls[p].result.kind = "INVALID_INPUT"
            /\ calls[p].result.status \in {400, 401, 403, 404, 500}


\* C26: in the balance loop of getAccountsByUser and in the loop of
\* getSpendingByCategory, whenever the fetch of an account's transactions is
\* issued, no fetch of that loop has returned yet.
C26_FetchesIssuedBeforeAnyReturns ==
    [][\A p \in Procs :
        LET c == calls[p]
            d == calls'[p]
        IN  (d # c /\ d.op \in {"getAccountsByUser", "getSpendingByCategory"}) =>
              /\ d.pc \in {"transactionsQuery", "statsBalanceQuery"} =>
                    DOMAIN d.balance = {}
              /\ d.pc = "statsTransactionsQuery" => d.todo = d.loaded
      ]_vars


\* C27: once every call has returned, and no store request having failed,
\* every stored transaction with a chain id is listed by a chain record of
\* that id, and every chain record lists only stored transactions.
C27_ChainsConsistentAtRest ==
    (\A p \in Procs : calls[p].op = "idle" /\ ~calls[p].fault) =>
        /\ \A i \in DOMAIN txs :
              txs[i].chainId # NoChain =>
                  \E r \in DOMAIN chains :
                      /\ chains[r].chainId = txs[i].chainId
                      /\ \E k \in 1..Len(chains[r].transactionIds) :
                            chains[r].transactionIds[k] = i
        /\ \A r \in DOMAIN chains :
              \A k \in 1..Len(chains[r].transactionIds) :
                  chains[r].transactionIds[k] \in DOMAIN txs


\* C28: when no transaction was ever deleted (every id handed out is still
\* stored), the balances a successful getAccountsByUser returns are the
\* balances of the store as it was at one single instant: after the k-th
\* write, for some k.
C28_BalancesFromOneInstant ==
    \A p \in Procs :
        (/\ Settled(p, "getAccountsByUser") /\ calls[p].result = Success
         /\ DOMAIN txs = 1..(nextTx - 1)) =>
            \E k \in 0..(nextTx - 1) :
                \A a \in DOMAIN calls[p].balance :
                    calls[p].balance[a]
                        = LedgerSum({ i \in 1..k : /\ txs[i].accountId = a
                                                   /\ txs[i].userId = calls[p].reader })


\* C29: every step of a service call that changes or removes a stored
\* account, transaction or custom category changes only documents whose
\* stored owner is the calling user: the userId the call was given, or the
\* signed-in user for updateAccount, which is given none.
C29_OnlyOwnDocumentsChanged ==
    [][\A p \in Procs :
        LET c == calls[p]
            caller == IF c.op = "updateAccount" THEN currentUser ELSE c.userId
        IN  (calls'[p] # c /\ c.op # "idle" /\ currentUser # NoUser) =>
              /\ \A a \in DOMAIN accounts :
                    (a \notin DOMAIN accounts' \/ accounts'[a] # accounts[a]) =>
                        accounts[a].userId = caller
              /\ \A i \in DOMAIN txs :
                    (i \notin DOMAIN txs' \/ txs'[i] # txs[i]) =>
                        txs[i].userId = caller
              /\ \A i \in DOMAIN categories :
                    (i \notin DOMAIN categories' \/ categories'[i] # categories[i]) =>
                        categories[i].userId = caller
      ]_vars


\* C30: every step that stores a new transaction stores it on an account that
\* exists, is not archived and belongs to the transaction's owner.
C30_TransactionOnOwnActiveAccount ==
    [][\A i \in DOMAIN txs' \ DOMAIN txs :
          /\ txs'[i].accountId \in DOMAIN accounts
          /\ ~accounts[txs'[i].accountId].isArchived
          /\ accounts[txs'[i].accountId].userId = txs'[i].userId
      ]_vars

====
